---- MODULE Spec2Model ----
(***************************************************************************)
(* Entry lookup and URI matching of the rbw command line client            *)
(* (src/bin/rbw/commands.rs).                                              *)
(*                                                                         *)
(* A Rust String is a sequence of symbols.  In entry names, user names and *)
(* folder names every symbol is one character.  In URL and UUID strings a  *)
(* symbol is one lexeme: a word ("https", "one", "8080"), a punctuation    *)
(* mark (".", ":", "/", "-") or the two slashes "//" that follow a scheme. *)
(* Option<T> is a sequence of length at most one: None is <<>> and Some(x) *)
(* is <<x>>.  A Result<T, E> that carries no error detail is modelled the  *)
(* same way (Err is <<>>, Ok(x) is <<x>>).                                 *)
(***************************************************************************)
EXTENDS Integers, Sequences, FiniteSets, TLC

None == <<>>
Some(x) == <<x>>
IsSome(o) == Len(o) = 1
Unwrap(o) == o[1]
\* the values of an Option: what "if let Some(x) = o" binds x to
Values(o) == {o[i] : i \in 1..Len(o)}

(***************************************************************************)
(* std::string::String                                                     *)
(***************************************************************************)
\* the symbols that have a lowercase form different from themselves
LowerPairs ==
    { <<"A", "a">>, <<"B", "b">>, <<"U", "u">>, <<"V", "v">>,
      <<"HTTPS", "https">>, <<"ONE", "one">>, <<"COM", "com">>,
      <<"A1", "a1">>, <<"A2", "a2">>, <<"A3", "a3">>, <<"A4", "a4">>,
      <<"A5", "a5">>, <<"B1", "b1">>, <<"JBSW", "jbsw">>, <<"MFRG", "mfrg">>,
      <<"SHA1", "sha1">>, <<"TOTP", "totp">>, <<"CODE", "code">>,
      <<"K", "k">>, <<"USER", "user">> }

ToLowerSym(c) ==
    IF \E p \in LowerPairs : p[1] = c
    THEN (CHOOSE p \in LowerPairs : p[1] = c)[2]
    ELSE c

ToUpperSym(c) ==
    IF \E p \in LowerPairs : p[2] = c
    THEN (CHOOSE p \in LowerPairs : p[2] = c)[1]
    ELSE c

to_lowercase(s) == [i \in 1..Len(s) |-> ToLowerSym(s[i])]
to_uppercase(s) == [i \in 1..Len(s) |-> ToUpperSym(s[i])]

starts_with(s, t) == Len(t) <= Len(s) /\ SubSeq(s, 1, Len(t)) = t
ends_with(s, t) ==
    Len(t) <= Len(s) /\ SubSeq(s, Len(s) - Len(t) + 1, Len(s)) = t
contains(s, t) ==
    \E i \in 0..(Len(s) - Len(t)) : SubSeq(s, i + 1, i + Len(t)) = t

\* index of the first occurrence of the symbol c in s[from..to], to + 1 when
\* there is none
Find(s, c, from, to) ==
    IF \E i \in from..to : s[i] = c
    THEN CHOOSE i \in from..to : s[i] = c /\ \A j \in from..(i - 1) : s[j] # c
    ELSE to + 1

RECURSIVE join(_, _)
\* [String]::join(sep)
join(strs, sep) ==
    IF Len(strs) = 0 THEN <<>>
    ELSE IF Len(strs) = 1 THEN strs[1]
    ELSE strs[1] \o sep \o join(Tail(strs), sep)

(***************************************************************************)
(* uuid::Uuid.  A UUID value is its five groups of lowercase hex digits;   *)
(* one symbol is one group.  parse_str accepts the simple form (the groups *)
(* without hyphens), the hyphenated form, the hyphenated form in braces    *)
(* and the hyphenated form after "urn:uuid:", in either letter case.       *)
(***************************************************************************)
\* the number of hex digits of each group
UuidShape == <<8, 4, 4, 4, 12>>
UuidGroups == Len(UuidShape)

\* the hex groups that may stand at position i of a UUID
HexGroup(i) ==
    CASE i = 1 -> {"a1", "b1", "c1", "d1", "A1", "B1"}
      [] i = 2 -> {"a2", "A2"}
      [] i = 3 -> {"a3", "A3"}
      [] i = 4 -> {"a4", "A4"}
      [] OTHER -> {"a5", "A5"}

IsSimpleUuid(s) ==
    /\ Len(s) = UuidGroups
    /\ \A i \in 1..UuidGroups : s[i] \in HexGroup(i)

IsHyphenatedUuid(s) ==
    /\ Len(s) = 2 * UuidGroups - 1
    /\ \A i \in 1..UuidGroups : s[2 * i - 1] \in HexGroup(i)
    /\ \A i \in 1..(UuidGroups - 1) : s[2 * i] = "-"

UrnPrefix == <<"urn", ":", "uuid", ":">>

\* uuid::Uuid::parse_str: Ok(value) or Err
uuid_parse_str(s) ==
    LET groups(h) == [i \in 1..UuidGroups |-> ToLowerSym(h[2 * i - 1])]
    IN  IF IsSimpleUuid(s) THEN Some(to_lowercase(s))
        ELSE IF IsHyphenatedUuid(s) THEN Some(groups(s))
        ELSE IF /\ starts_with(s, UrnPrefix)
                /\ IsHyphenatedUuid(SubSeq(s, Len(UrnPrefix) + 1, Len(s)))
             THEN Some(groups(SubSeq(s, Len(UrnPrefix) + 1, Len(s))))
        ELSE IF /\ Len(s) >= 2 /\ s[1] = "{" /\ s[Len(s)] = "}"
                /\ IsHyphenatedUuid(SubSeq(s, 2, Len(s) - 1))
             THEN Some(groups(SubSeq(s, 2, Len(s) - 1)))
        ELSE None

\* Uuid::to_string (also what Uuid::new_v4().to_string() yields in the tests):
\* lowercase groups joined by hyphens
uuid_to_string(u) == join([i \in 1..UuidGroups |-> <<u[i]>>], <<"-">>)

(***************************************************************************)
(* url::Url.  parse follows the WHATWG URL parser on the strings of the    *)
(* model: a scheme, then for a special scheme an authority (host, optional *)
(* port) and a path; for any other scheme either "//" and an authority or  *)
(* an opaque path.  No string of the model has user info or a fragment,    *)
(* and a query only after the "/" of a path.                               *)
(***************************************************************************)
\* words made of letters (and digits) that start with a letter
AlphaWords ==
    {"http", "https", "ftp", "ws", "wss", "file", "mailto", "urn", "uuid",
     "HTTPS", "one", "ONE", "two", "three", "com", "COM", "co", "uk",
     "example", "login", "not", "sso", "x", "otpauth", "totp", "hotp"}
\* words made of digits only
DigitWords == {"80", "443", "8080", "21"}
\* dotted-decimal IPv4 addresses, one lexeme each
IpLiterals == {"10.0.0.1"}

SpecialSchemes ==
    {<<"http">>, <<"https">>, <<"ftp">>, <<"ws">>, <<"wss">>, <<"file">>}

\* the port a special scheme implies, None for file and non-special schemes
DefaultPort(scheme) ==
    CASE scheme \in {<<"http">>, <<"ws">>} -> Some("80")
      [] scheme \in {<<"https">>, <<"wss">>} -> Some("443")
      [] scheme = <<"ftp">> -> Some("21")
      [] OTHER -> None

\* a scheme is a letter followed by letters, digits, "+", "-" and "."
IsScheme(s) ==
    /\ Len(s) >= 1
    /\ s[1] \in AlphaWords
    /\ \A i \in 1..Len(s) : s[i] \in AlphaWords \cup DigitWords \cup {".", "-"}

\* a domain name: labels of words separated by single dots, the last label
\* not a number
IsDomain(h) ==
    LET lastDot == IF \E i \in 1..Len(h) : h[i] = "."
                   THEN CHOOSE i \in 1..Len(h) :
                          h[i] = "." /\ \A j \in (i + 1)..Len(h) : h[j] # "."
                   ELSE 0
    IN  /\ Len(h) >= 1
        /\ \A i \in 1..Len(h) : h[i] \in AlphaWords \cup DigitWords \cup {"."}
        /\ h[1] # "." /\ h[Len(h)] # "."
        /\ \A i \in 1..(Len(h) - 1) : ~(h[i] = "." /\ h[i + 1] = ".")
        /\ \E j \in (lastDot + 1)..Len(h) : h[j] \in AlphaWords

\* host and port of an authority: Ok([host, kind, port]) or Err
ParseAuthority(host, rawport, scheme) ==
    IF ~(rawport = <<>> \/ (Len(rawport) = 1 /\ rawport[1] \in DigitWords))
    THEN None
    ELSE IF Len(host) = 1 /\ host[1] \in IpLiterals
            /\ scheme \in SpecialSchemes
         THEN Some([host |-> host, kind |-> "Ipv4",
                    port |-> IF rawport = <<>> \/ rawport = DefaultPort(scheme)
                             THEN None ELSE Some(rawport[1])])
    ELSE IF IsDomain(host)
         THEN Some([host |-> host, kind |-> "Domain",
                    port |-> IF rawport = <<>> \/ rawport = DefaultPort(scheme)
                             THEN None ELSE Some(rawport[1])])
    ELSE None

\* the URL of a scheme and what follows it: rest is all of it, rawhost,
\* rawport and rawpath are its parts when it holds an authority
ParseAfterScheme(scheme, slashes, rawhost, rawport, rawpath, rest) ==
    IF scheme \in SpecialSchemes \/ slashes
    THEN CHOOSE url \in
            {IF IsSome(hp)
             THEN Some([scheme |-> scheme,
                        host |-> Some(Unwrap(hp).host),
                        kind |-> Unwrap(hp).kind,
                        port |-> Unwrap(hp).port,
                        path |-> IF scheme \in SpecialSchemes /\ rawpath = <<>>
                                 THEN <<"/">> ELSE rawpath])
             ELSE None :
               hp \in {ParseAuthority(host, rawport, scheme) :
                         host \in {IF scheme \in SpecialSchemes
                                   THEN to_lowercase(rawhost) ELSE rawhost}}} :
            TRUE
    ELSE Some([scheme |-> scheme, host |-> None, kind |-> "None",
               port |-> None, path |-> rest])

\* Url::parse: Ok(url) or Err
url_parse(s) ==
    LET colon == Find(s, ":", 1, Len(s))
        slashes == colon < Len(s) /\ s[colon + 1] = "//"
        \* where the authority starts, where the path starts, and where the
        \* authority has its colon
        start == IF slashes THEN colon + 2 ELSE colon + 1
        slash == Find(s, "/", start, Len(s))
        portAt == Find(s, ":", start, slash - 1)
    IN  IF colon > Len(s) \/ ~IsScheme(SubSeq(s, 1, colon - 1)) THEN None
        ELSE CHOOSE url \in
                {ParseAfterScheme(scheme, hasSlashes, rawhost, rawport,
                                  rawpath, rest) :
                    scheme \in {to_lowercase(SubSeq(s, 1, colon - 1))},
                    hasSlashes \in {slashes},
                    rawhost \in {SubSeq(s, start, portAt - 1)},
                    rawport \in {SubSeq(s, portAt + 1, slash - 1)},
                    rawpath \in {SubSeq(s, slash, Len(s))},
                    rest \in {SubSeq(s, colon + 1, Len(s))}} :
                TRUE

\* Url::is_special
is_special(url) == url.scheme \in SpecialSchemes
\* Url::host_str
host_str(url) == url.host
\* Url::domain: the host when it is a domain name, None for an IP address
url_domain(url) == IF url.kind = "Domain" THEN url.host ELSE None
\* Url::port: the explicit port, None when it is the scheme's default
url_port(url) == url.port
\* Url::to_string / as_ref: the serialization
url_to_string(url) ==
    IF IsSome(url.host)
    THEN url.scheme \o <<":", "//">> \o Unwrap(url.host)
         \o (IF IsSome(url.port) THEN <<":", Unwrap(url.port)>> ELSE <<>>)
         \o url.path
    ELSE url.scheme \o <<":">> \o url.path

(***************************************************************************)
(* regex::Regex on the lexemes of a URL.  A pattern is a sequence of       *)
(* literal symbols, "." (any one character), "\\." (a literal dot), an     *)
(* optional leading "^" and an optional trailing "$"; a pattern with an    *)
(* unclosed "(" does not compile.                                          *)
(***************************************************************************)
OneCharSymbols == {".", ":", "/", "-"}

Count(s, c) == Cardinality({i \in 1..Len(s) : s[i] = c})

\* Regex::new: Ok(pattern) or Err
regex_new(p) == IF Count(p, "(") # Count(p, ")") THEN None ELSE Some(p)

\* Regex::is_match
regex_is_match(p, text) ==
    LET atStart == Len(p) >= 1 /\ p[1] = "^"
        p1 == IF atStart THEN Tail(p) ELSE p
        atEnd == Len(p1) >= 1 /\ p1[Len(p1)] = "$"
        body == IF atEnd THEN SubSeq(p1, 1, Len(p1) - 1) ELSE p1
        symOk(b, t) == \/ b = t
                       \/ (b = "." /\ t \in OneCharSymbols)
                       \/ (b = "\\." /\ t = ".")
        at(i) == \A k \in 1..Len(body) : symOk(body[k], text[i + k])
    IN  \E i \in 0..(Len(text) - Len(body)) :
            /\ at(i)
            /\ atStart => i = 0
            /\ atEnd => i + Len(body) = Len(text)

(***************************************************************************)
(* DecryptedUri                                                            *)
(***************************************************************************)
\* rbw::api::UriMatchType
UriMatchType ==
    {"Domain", "Host", "StartsWith", "Exact", "RegularExpression", "Never"}

\* format!("{host}:{port}")
WithPort(host, port) ==
    IF IsSome(port) THEN host \o <<":", Unwrap(port)>> ELSE host

\* the registrable domain of a host name: the label before the public suffix
\* and the suffix ("co.uk" has two labels, every other suffix of the model
\* one); a host that is a suffix alone is left as it is
RegistrableDomain(host) ==
    LET dots == {i \in 1..Len(host) : host[i] = "."}
        keep == IF ends_with(host, <<".", "co", ".", "uk">>) THEN 2 ELSE 1
        cut == {i \in dots : Cardinality({j \in dots : j >= i}) = keep + 1}
    IN  IF cut = {} THEN host
        ELSE SubSeq(host, (CHOOSE i \in cut : TRUE) + 1, Len(host))

\* domain_port that reduces the host to its registrable domain
DomainPortRegistrable(url) ==
    IF url.kind = "Domain"
    THEN Some(WithPort(RegistrableDomain(Unwrap(url.host)), url.port))
    ELSE None

host_port(url) ==
    IF IsSome(host_str(url))
    THEN Some(WithPort(Unwrap(host_str(url)), url_port(url)))
    ELSE None

domain_port(url) ==
    IF IsSome(url_domain(url))
    THEN Some(WithPort(Unwrap(url_domain(url)), url_port(url)))
    ELSE None

\* MatchesDomain that accepts any suffix, not only one that follows a dot
MatchesDomainNoDot(self, url) ==
    \E given \in Values(domain_port(url)) :
        \/ \E self_url \in Values(url_parse(self.uri)) :
              \E self_dp \in Values(domain_port(self_url)) :
                  /\ self_url.scheme = url.scheme
                  /\ ends_with(given, self_dp)
        \/ ends_with(given, self.uri)

\* DecryptedUri::matches_url, the Domain arm
MatchesDomain(self, url) ==
    \E given \in Values(domain_port(url)) :
        \/ \E self_url \in Values(url_parse(self.uri)) :
              \E self_dp \in Values(domain_port(self_url)) :
                  /\ self_url.scheme = url.scheme
                  /\ \/ self_dp = given
                     \/ ends_with(given, <<".">> \o self_dp)
        \/ self.uri = given
        \/ ends_with(given, <<".">> \o self.uri)

\* MatchesHost that also accepts a subdomain of the stored host
MatchesHostSubdomain(self, url) ==
    \E given \in Values(host_port(url)) :
        \/ \E self_url \in Values(url_parse(self.uri)) :
              \E self_hp \in Values(host_port(self_url)) :
                  /\ self_url.scheme = url.scheme
                  /\ \/ self_hp = given
                     \/ ends_with(given, <<".">> \o self_hp)
        \/ self.uri = given

\* DecryptedUri::matches_url, the Host arm
MatchesHost(self, url) ==
    \E given \in Values(host_port(url)) :
        \/ \E self_url \in Values(url_parse(self.uri)) :
              \E self_hp \in Values(host_port(self_url)) :
                  /\ self_url.scheme = url.scheme
                  /\ self_hp = given
        \/ self.uri = given

\* matches_url that treats the Never match type as Domain
MatchesUrlNeverAsDomain(self, url) ==
    LET match_type == IF IsSome(self.match_type)
                      THEN Unwrap(self.match_type) ELSE "Domain"
    IN  CASE match_type = "Host" -> MatchesHost(self, url)
          [] match_type = "StartsWith" ->
                starts_with(url_to_string(url), self.uri)
          [] match_type = "Exact" -> url_to_string(url) = self.uri
          [] match_type = "RegularExpression" ->
                \E rx \in Values(regex_new(self.uri)) :
                    regex_is_match(rx, url_to_string(url))
          [] OTHER -> MatchesDomain(self, url)

matches_url(self, url) ==
    LET match_type == IF IsSome(self.match_type)
                      THEN Unwrap(self.match_type) ELSE "Domain"
    IN  CASE match_type = "Domain" -> MatchesDomain(self, url)
          [] match_type = "Host" -> MatchesHost(self, url)
          [] match_type = "StartsWith" ->
                starts_with(url_to_string(url), self.uri)
          [] match_type = "Exact" -> url_to_string(url) = self.uri
          [] match_type = "RegularExpression" ->
                \E rx \in Values(regex_new(self.uri)) :
                    regex_is_match(rx, url_to_string(url))
          [] OTHER -> FALSE

(***************************************************************************)
(* Needle                                                                  *)
(***************************************************************************)
NeedleName(name) == [kind |-> "Name", name |-> name]
NeedleUri(url) == [kind |-> "Uri", url |-> url]
NeedleUuid(uuid) == [kind |-> "Uuid", uuid |-> uuid]

\* parse_needle without the is_special test
ParseNeedleAnyUrl(arg) ==
    IF IsSome(uuid_parse_str(arg)) THEN NeedleUuid(Unwrap(uuid_parse_str(arg)))
    ELSE IF \E url \in Values(url_parse(arg)) : TRUE
         THEN NeedleUri(Unwrap(url_parse(arg)))
    ELSE NeedleName(arg)

parse_needle(arg) ==
    IF IsSome(uuid_parse_str(arg)) THEN NeedleUuid(Unwrap(uuid_parse_str(arg)))
    ELSE IF \E url \in Values(url_parse(arg)) : is_special(url)
         THEN NeedleUri(Unwrap(url_parse(arg)))
    ELSE NeedleName(arg)

(***************************************************************************)
(* Decryption.  A ciphertext is the plaintext it encrypts together with    *)
(* whether the agent can decrypt it: [plain, ok].                          *)
(***************************************************************************)
Cipher(plain) == [plain |-> plain, ok |-> TRUE]
Broken(plain) == [plain |-> plain, ok |-> FALSE]

\* crate::actions::decrypt: Ok(plaintext) or Err
decrypt(ct) == IF ct.ok THEN Some(ct.plain) ELSE None

\* decrypt_field that hands out the plaintext although decryption failed
DecryptFieldIgnoresFailure(field) ==
    IF IsSome(field) THEN Some(Unwrap(field).plain) ELSE None

\* decrypt_field: an absent field stays absent, a failure is logged and
\* becomes absent
decrypt_field(field) ==
    IF IsSome(field) /\ IsSome(decrypt(Unwrap(field)))
    THEN Some(Unwrap(decrypt(Unwrap(field))))
    ELSE None

\* the uris of a Login: collect() into Option<Vec<_>> is None as soon as one
\* element is None
DecryptUris(uris) ==
    IF \A i \in 1..Len(uris) : IsSome(decrypt_field(Some(uris[i].uri)))
    THEN Some([i \in 1..Len(uris) |->
                 [uri |-> Unwrap(decrypt_field(Some(uris[i].uri))),
                  match_type |-> uris[i].match_type]])
    ELSE None

\* the match on entry.data: every field of the variant through decrypt_field
DecryptData(data) ==
    IF data.kind = "Login"
    THEN [kind |-> "Login",
          username |-> decrypt_field(data.username),
          password |-> decrypt_field(data.password),
          totp |-> decrypt_field(data.totp),
          uris |-> DecryptUris(data.uris)]
    ELSE [k \in DOMAIN data |->
            IF k = "kind" THEN data.kind ELSE decrypt_field(data[k])]

\* the ? operators of decrypt_cipher: the name of a custom field, the value
\* of a custom field, a history password and the entry name
DecryptFails(entry) ==
    \/ \E i \in 1..Len(entry.fields) :
          \/ IsSome(entry.fields[i].name)
             /\ ~IsSome(decrypt(Unwrap(entry.fields[i].name)))
          \/ IsSome(entry.fields[i].value)
             /\ ~IsSome(decrypt(Unwrap(entry.fields[i].value)))
    \/ \E i \in 1..Len(entry.history) :
          ~IsSome(decrypt(entry.history[i].password))
    \/ ~IsSome(decrypt(entry.name))

\* decrypt_cipher: Ok(DecryptedCipher) or Err
decrypt_cipher(entry) ==
    IF DecryptFails(entry) THEN None
    ELSE Some([id |-> entry.id,
               folder |-> decrypt_field(entry.folder),
               name |-> Unwrap(decrypt(entry.name)),
               data |-> DecryptData(entry.data),
               fields |-> [i \in 1..Len(entry.fields) |->
                   [name |-> decrypt_field(entry.fields[i].name),
                    value |-> decrypt_field(entry.fields[i].value),
                    ty |-> entry.fields[i].ty]],
               notes |-> decrypt_field(entry.notes),
               history |-> [i \in 1..Len(entry.history) |->
                   [last_used_date |-> entry.history[i].last_used_date,
                    password |-> Unwrap(decrypt(entry.history[i].password))]]])

(***************************************************************************)
(* TOTP.  A Result<T, E> whose error is reported is Ok(x) or Err(message). *)
(* A TOTP secret is a sequence of lexemes like a URL; in the query of an   *)
(* otpauth URL "?", "&" and "=" are lexemes, a key is one lexeme and a     *)
(* value is the lexemes up to the next "&".  The query of a URL follows    *)
(* its path, and the url record keeps both in path.                        *)
(***************************************************************************)
Ok(x) == [ok |-> TRUE, val |-> x]
Err(e) == [ok |-> FALSE, err |-> e]

RECURSIVE trim(_)
\* str::trim
trim(s) ==
    IF s # <<>> /\ s[1] = " " THEN trim(Tail(s))
    ELSE IF s # <<>> /\ s[Len(s)] = " " THEN trim(SubSeq(s, 1, Len(s) - 1))
    ELSE s

\* words over the alphabet of RFC 4648 base32, and the same in lower case
Base32Upper == {"JBSW", "MFRG"}
Base32Lower == {"jbsw", "mfrg"}

\* base32::decode under one alphabet: the bytes, which the upper case and
\* the lower case spelling share, or None
base32_decode(alphabet, s) ==
    IF \A i \in 1..Len(s) : s[i] \in alphabet
    THEN Some(to_uppercase(s))
    ELSE None

\* decode_totp_secret: the first alphabet that decodes the trimmed secret
\* (no secret of the model is padded, so the alphabets with padding decode
\* what the ones without do)
DecodeTrimmed(secret) ==
    IF IsSome(base32_decode(Base32Upper, secret))
    THEN Ok(Unwrap(base32_decode(Base32Upper, secret)))
    ELSE IF IsSome(base32_decode(Base32Lower, secret))
    THEN Ok(Unwrap(base32_decode(Base32Lower, secret)))
    ELSE Err(<<"totp secret was not valid base32">>)

decode_totp_secret(secret) ==
    CHOOSE r \in {DecodeTrimmed(t) : t \in {trim(secret)}} : TRUE

\* Url::query_pairs collected into a HashMap: the last value of a key wins
query_pairs(url) ==
    LET path == url.path
        q == Find(path, "?", 1, Len(path))
        eqs == {i \in (q + 2)..Len(path) : path[i] = "="}
    IN  [k \in {path[i - 1] : i \in eqs} |->
            LET last == CHOOSE i \in eqs :
                           /\ path[i - 1] = k
                           /\ \A j \in eqs : path[j - 1] = k => j <= i
            IN  SubSeq(path, last + 1,
                       Find(path, "&", last + 1, Len(path)) - 1)]

\* the decimal numbers of the model
IntWords == {"0", "6", "8", "30", "60"}
IntValue(w) ==
    CASE w = "0" -> 0
      [] w = "6" -> 6
      [] w = "8" -> 8
      [] w = "30" -> 30
      [] w = "60" -> 60

\* str::parse::<u32> and str::parse::<u64>: Ok(n) or Err
parse_int(s) ==
    IF Len(s) = 1 /\ s[1] \in IntWords THEN Some(IntValue(s[1])) ELSE None

\* the parameters of a secret that is no URL
DefaultDigits == 6
\* totp_lite::DEFAULT_STEP
DEFAULT_STEP == 30

\* the TotpParams of the query of an otpauth URL
ParseTotpQuery(query) ==
    IF "secret" \notin DOMAIN query
    THEN Err(<<"totp secret url must have secret">>)
    ELSE IF ~decode_totp_secret(query["secret"]).ok
    THEN decode_totp_secret(query["secret"])
    ELSE IF "digits" \in DOMAIN query /\ ~IsSome(parse_int(query["digits"]))
    THEN Err(<<"digits parameter in totp url must be a valid integer.">>)
    ELSE IF "period" \in DOMAIN query /\ ~IsSome(parse_int(query["period"]))
    THEN Err(<<"period parameter in totp url must be a valid integer.">>)
    ELSE Ok([secret |-> decode_totp_secret(query["secret"]).val,
             algorithm |-> IF "algorithm" \in DOMAIN query
                           THEN query["algorithm"] ELSE <<"SHA1">>,
             digits |-> IF "digits" \in DOMAIN query
                        THEN Unwrap(parse_int(query["digits"]))
                        ELSE DefaultDigits,
             period |-> IF "period" \in DOMAIN query
                        THEN Unwrap(parse_int(query["period"]))
                        ELSE DEFAULT_STEP])

\* the TotpParams of a secret that parses as a URL
ParseTotpUrl(u) ==
    IF u.scheme # <<"otpauth">>
    THEN Err(<<"totp secret url must have otpauth scheme">>)
    ELSE IF host_str(u) # Some(<<"totp">>)
    THEN Err(<<"totp secret url must have totp host">>)
    ELSE CHOOSE r \in {ParseTotpQuery(query) : query \in {query_pairs(u)}} :
            TRUE

\* parse_totp_secret: Ok(TotpParams) or Err
parse_totp_secret(secret) ==
    IF IsSome(url_parse(secret))
    THEN CHOOSE r \in {ParseTotpUrl(u) : u \in Values(url_parse(secret))} :
            TRUE
    ELSE IF ~decode_totp_secret(secret).ok THEN decode_totp_secret(secret)
    ELSE Ok([secret |-> decode_totp_secret(secret).val,
             algorithm |-> <<"SHA1">>,
             digits |-> DefaultDigits,
             period |-> DEFAULT_STEP])

\* the hash functions generate_totp knows
TotpAlgorithms == {<<"SHA1">>, <<"SHA256">>, <<"SHA512">>}

\* a panic: the process aborts with the message
Panic(e) == [ok |-> FALSE, err |-> e, panic |-> TRUE]
IsPanic(r) == "panic" \in DOMAIN r

\* totp_lite::totp_custom: the code is a function of the hash, the number of
\* digits, the key and the number of periods since the epoch, time / period,
\* a division that panics when the period is 0; as a string it is one symbol
totp_custom(alg, period, digits, secret, time) ==
    <<[alg |-> alg, digits |-> digits, secret |-> secret,
       counter |-> time \div period]>>

\* the code of parsed parameters with the algorithm read in any letter case;
\* now is the time since the epoch, None when the clock is before the epoch
GenerateTotpAnyCase(params, now) ==
    IF ~params.ok THEN params
    ELSE IF to_uppercase(params.val.algorithm) \notin TotpAlgorithms
    THEN Err(params.val.algorithm \o <<" is not a valid totp algorithm">>)
    ELSE IF now = None
    THEN Err(<<"second time provided was later than self">>)
    ELSE IF params.val.period = 0
    THEN Panic(<<"attempt to divide by zero">>)
    ELSE Ok(totp_custom(to_uppercase(params.val.algorithm),
                        params.val.period, params.val.digits,
                        params.val.secret, Unwrap(now)))

\* the code of parsed parameters
GenerateTotp(params, now) ==
    IF ~params.ok THEN params
    ELSE IF params.val.algorithm \notin TotpAlgorithms
    THEN Err(params.val.algorithm \o <<" is not a valid totp algorithm">>)
    ELSE IF now = None
    THEN Err(<<"second time provided was later than self">>)
    ELSE IF params.val.period = 0
    THEN Panic(<<"attempt to divide by zero">>)
    ELSE Ok(totp_custom(params.val.algorithm, params.val.period,
                        params.val.digits, params.val.secret, Unwrap(now)))

\* generate_totp: Ok(code) or Err
generate_totp(secret, now) ==
    CHOOSE r \in {GenerateTotp(params, now) :
                    params \in {parse_totp_secret(secret)}} : TRUE

(***************************************************************************)
(* DecryptedCipher                                                         *)
(***************************************************************************)
IsLoginWithUsername(self) ==
    self.data.kind = "Login" /\ IsSome(self.data.username)

display_name(self) ==
    IF IsLoginWithUsername(self)
    THEN Unwrap(self.data.username) \o <<"@">> \o self.name
    ELSE self.name

\* ExactNeedle with the entry name left as it is when case is ignored
ExactNeedleRawName(self, needle, ignore_case) ==
    CASE needle.kind = "Name" ->
            IF ignore_case THEN to_lowercase(needle.name) = self.name
            ELSE needle.name = self.name
      [] needle.kind = "Uri" ->
            /\ self.data.kind = "Login"
            /\ IsSome(self.data.uris)
            /\ \E i \in 1..Len(Unwrap(self.data.uris)) :
                  matches_url(Unwrap(self.data.uris)[i], needle.url)
      [] OTHER -> uuid_parse_str(self.id) = Some(needle.uuid)

\* the needle part of exact_match
ExactNeedle(self, needle, ignore_case) ==
    CASE needle.kind = "Name" ->
            \/ ignore_case
               /\ to_lowercase(needle.name) = to_lowercase(self.name)
            \/ needle.name = self.name
      [] needle.kind = "Uri" ->
            /\ self.data.kind = "Login"
            /\ IsSome(self.data.uris)
            /\ \E i \in 1..Len(Unwrap(self.data.uris)) :
                  matches_url(Unwrap(self.data.uris)[i], needle.url)
      [] OTHER -> uuid_parse_str(self.id) = Some(needle.uuid)

\* ExactFolder that compares the folder whatever try_match_folder says
ExactFolderAlways(self, folder, try_match_folder) ==
    IF IsSome(folder)
    THEN IsSome(self.folder) /\ Unwrap(folder) = Unwrap(self.folder)
    ELSE ~IsSome(self.folder)

\* the folder part of exact_match
ExactFolder(self, folder, try_match_folder) ==
    try_match_folder =>
        IF IsSome(folder)
        THEN IsSome(self.folder) /\ Unwrap(folder) = Unwrap(self.folder)
        ELSE ~IsSome(self.folder)

\* exact_match that compares the username without case when ignore_case
ExactMatchUsernameIgnoreCase(self, needle, username, folder, try_match_folder, ignore_case) ==
    /\ ExactNeedle(self, needle, ignore_case)
    /\ IsSome(username) =>
          /\ IsLoginWithUsername(self)
          /\ \/ ignore_case
                /\ to_lowercase(Unwrap(username)) =
                      to_lowercase(Unwrap(self.data.username))
             \/ Unwrap(username) = Unwrap(self.data.username)
    /\ ExactFolder(self, folder, try_match_folder)

exact_match(self, needle, username, folder, try_match_folder, ignore_case) ==
    /\ ExactNeedle(self, needle, ignore_case)
    /\ IsSome(username) =>
          /\ IsLoginWithUsername(self)
          /\ Unwrap(username) = Unwrap(self.data.username)
    /\ ExactFolder(self, folder, try_match_folder)

\* the folder part of partial_match
PartialFolder(self, folder, try_match_folder) ==
    try_match_folder =>
        IF IsSome(folder)
        THEN IsSome(self.folder)
             /\ contains(Unwrap(self.folder), Unwrap(folder))
        ELSE ~IsSome(self.folder)

\* partial_match that compares the name as it is written whatever ignore_case
PartialMatchCaseSensitive(self, name, username, folder, try_match_folder, ignore_case) ==
    /\ contains(self.name, name)
    /\ IsSome(username) =>
          /\ IsLoginWithUsername(self)
          /\ \/ ignore_case
                /\ contains(to_lowercase(Unwrap(self.data.username)),
                            to_lowercase(Unwrap(username)))
             \/ contains(Unwrap(self.data.username), Unwrap(username))
    /\ PartialFolder(self, folder, try_match_folder)

partial_match(self, name, username, folder, try_match_folder, ignore_case) ==
    /\ \/ ignore_case
          /\ contains(to_lowercase(self.name), to_lowercase(name))
       \/ contains(self.name, name)
    /\ IsSome(username) =>
          /\ IsLoginWithUsername(self)
          /\ \/ ignore_case
                /\ contains(to_lowercase(Unwrap(self.data.username)),
                            to_lowercase(Unwrap(username)))
             \/ contains(Unwrap(self.data.username), Unwrap(username))
    /\ PartialFolder(self, folder, try_match_folder)

(***************************************************************************)
(* The projections of a DecryptedCipher.  A projection yields what it      *)
(* writes, in order, and the bool it returns (FALSE where it returns       *)
(* nothing).  store_ok says whether clipboard_store succeeds in this       *)
(* invocation and now is the clock that generate_totp reads.  The fixed    *)
(* field names ("notes", "totp", ...) and labels are one symbol each; the  *)
(* name of a custom field is a string of characters.                       *)
(***************************************************************************)
Stdout(text) == [to |-> "stdout", text |-> text]
Stderr(text) == [to |-> "stderr", text |-> text]
Clip(text) == [to |-> "clip", text |-> text]
Shown(w, r) == [w |-> w, r |-> r]
Nothing == Shown(<<>>, FALSE)

\* serde_json of a DecryptedCipher, without the white space of the pretty
\* printer: a string, null for None
Quoted(s) == <<"\"">> \o s \o <<"\"">>
JsonString(o) == IF IsSome(o) THEN Quoted(Unwrap(o)) ELSE <<"null">>
JsonArray(items) == <<"[">> \o join(items, <<",">>) \o <<"]">>
JsonObject(members) == <<"{">> \o join(members, <<",">>) \o <<"}">>
JsonMember(key, value) == Quoted(<<key>>) \o <<":">> \o value

\* the fields of the variants of DecryptedData, in their order
LoginKeys == <<"username", "password", "totp">>
CardKeys ==
    <<"cardholder_name", "number", "brand", "exp_month", "exp_year", "code">>
IdentityKeys ==
    <<"title", "first_name", "middle_name", "last_name", "address1",
      "address2", "address3", "city", "state", "postal_code", "country",
      "phone", "email", "ssn", "license_number", "passport_number",
      "username">>

JsonStrings(rcd, keys) ==
    [i \in 1..Len(keys) |-> JsonMember(keys[i], JsonString(rcd[keys[i]]))]

JsonUri(uri) ==
    JsonObject(<<JsonMember("uri", Quoted(uri.uri)),
                 JsonMember("match_type",
                            IF IsSome(uri.match_type)
                            THEN Quoted(<<Unwrap(uri.match_type)>>)
                            ELSE <<"null">>)>>)

\* DecryptedData is untagged: a variant is its fields, SecureNote is null
JsonData(data) ==
    CASE data.kind = "Login" ->
            JsonObject(
                JsonStrings(data, LoginKeys)
                \o <<JsonMember(
                        "uris",
                        IF IsSome(data.uris)
                        THEN JsonArray([i \in 1..Len(Unwrap(data.uris)) |->
                                          JsonUri(Unwrap(data.uris)[i])])
                        ELSE <<"null">>)>>)
      [] data.kind = "Card" -> JsonObject(JsonStrings(data, CardKeys))
      [] data.kind = "Identity" -> JsonObject(JsonStrings(data, IdentityKeys))
      [] data.kind = "SecureNote" -> <<"null">>

JsonField(field) ==
    JsonObject(<<JsonMember("name", JsonString(field.name)),
                 JsonMember("value", JsonString(field.value)),
                 JsonMember("type", Quoted(<<field.ty>>))>>)

JsonHistory(entry) ==
    JsonObject(<<JsonMember("last_used_date", Quoted(entry.last_used_date)),
                 JsonMember("password", Quoted(entry.password))>>)

Json(self) ==
    JsonObject(
        <<JsonMember("id", Quoted(self.id)),
          JsonMember("folder", JsonString(self.folder)),
          JsonMember("name", Quoted(self.name)),
          JsonMember("data", JsonData(self.data)),
          JsonMember("fields",
                     JsonArray([i \in 1..Len(self.fields) |->
                                  JsonField(self.fields[i])])),
          JsonMember("notes", JsonString(self.notes)),
          JsonMember("history",
                     JsonArray([i \in 1..Len(self.history) |->
                                  JsonHistory(self.history[i])]))>>)

\* val_display_or_store
val_display_or_store(clipboard, password, store_ok) ==
    IF clipboard
    THEN IF store_ok
         THEN Shown(<<Clip(password)>>, TRUE)
         ELSE Shown(<<Stderr(<<"failed to store to clipboard">>)>>, FALSE)
    ELSE Shown(<<Stdout(password)>>, TRUE)

\* the present ones of a list of optional strings
RECURSIVE flatten(_)
flatten(opts) ==
    IF opts = <<>> THEN <<>>
    ELSE (IF IsSome(Head(opts)) THEN <<Unwrap(Head(opts))>> ELSE <<>>)
         \o flatten(Tail(opts))

\* display_short on an absent primary field
HadNo(desc, what) ==
    Shown(<<Stderr(<<"entry for '">> \o desc \o <<"' had no ", what>>)>>,
          FALSE)

\* DecryptedCipher::display_short
display_short(self, desc, clipboard, store_ok) ==
    CASE self.data.kind = "Login" ->
            IF IsSome(self.data.password)
            THEN val_display_or_store(clipboard, Unwrap(self.data.password),
                                      store_ok)
            ELSE HadNo(desc, "password")
      [] self.data.kind = "Card" ->
            IF IsSome(self.data.number)
            THEN val_display_or_store(clipboard, Unwrap(self.data.number),
                                      store_ok)
            ELSE HadNo(desc, "card number")
      [] self.data.kind = "Identity" ->
            IF flatten(<<self.data.title, self.data.first_name,
                         self.data.middle_name, self.data.last_name>>) = <<>>
            THEN HadNo(desc, "name")
            ELSE val_display_or_store(
                     clipboard,
                     join(flatten(<<self.data.title, self.data.first_name,
                                    self.data.middle_name,
                                    self.data.last_name>>), <<" ">>),
                     store_ok)
      [] self.data.kind = "SecureNote" ->
            IF IsSome(self.notes)
            THEN val_display_or_store(clipboard, Unwrap(self.notes), store_ok)
            ELSE HadNo(desc, "notes")

\* if let Some(value) = value { val_display_or_store(clipboard, value); }
IfSome(value, clipboard, store_ok) ==
    IF IsSome(value)
    THEN val_display_or_store(clipboard, Unwrap(value), store_ok)
    ELSE Nothing

\* the last arm with no break: every custom field that matches is emitted
CustomFieldEvery(self, field, clipboard, store_ok) ==
    LET named == {i \in 1..Len(self.fields) :
                    /\ IsSome(self.fields[i].name)
                    /\ contains(to_lowercase(Unwrap(self.fields[i].name)),
                                field)}
        keep(i) == i \in named
        order == SelectSeq([i \in 1..Len(self.fields) |-> i], keep)
    IN  Shown(
            [n \in 1..Len(order) |->
                val_display_or_store(
                    clipboard,
                    IF IsSome(self.fields[order[n]].value)
                    THEN Unwrap(self.fields[order[n]].value) ELSE <<>>,
                    store_ok).w[1]],
            FALSE)

\* the last arm of every variant: the first custom field whose name, in
\* lower case, contains the field name
CustomField(self, field, clipboard, store_ok) ==
    LET named == {i \in 1..Len(self.fields) :
                    /\ IsSome(self.fields[i].name)
                    /\ contains(to_lowercase(Unwrap(self.fields[i].name)),
                                field)}
    IN  IF named = {} THEN Nothing
        ELSE val_display_or_store(
                 clipboard,
                 (LET f == self.fields[CHOOSE i \in named :
                                          \A j \in named : i <= j]
                  IN  IF IsSome(f.value) THEN Unwrap(f.value) ELSE <<>>),
                 store_ok)

\* the "totp" | "code" arm that fails silently and shows the secret instead
TotpFieldShowsSecret(totp, clipboard, store_ok, now) ==
    IF IsSome(totp)
    THEN val_display_or_store(clipboard, Unwrap(totp), store_ok)
    ELSE Nothing

\* the "totp" | "code" arm of a Login
TotpField(totp, clipboard, store_ok, now) ==
    IF IsSome(totp)
    THEN CHOOSE shown \in
            {IF code.ok
             THEN val_display_or_store(clipboard, code.val, store_ok)
             ELSE Shown(<<Stderr(code.err)>>, FALSE) :
                code \in {generate_totp(Unwrap(totp), now)}} : TRUE
    ELSE Nothing

\* DecryptedCipher::display_field, with field in lower case already
DisplayFieldLower(self, desc, field, clipboard, store_ok, now) ==
    CASE self.data.kind = "Login" ->
            CASE field = <<"notes">> -> IfSome(self.notes, clipboard, store_ok)
              [] field \in {<<"username">>, <<"user">>} ->
                    IfSome(self.data.username, clipboard, store_ok)
              [] field \in {<<"totp">>, <<"code">>} ->
                    TotpField(self.data.totp, clipboard, store_ok, now)
              [] field \in {<<"uris">>, <<"urls">>, <<"sites">>} ->
                    IF IsSome(self.data.uris)
                    THEN val_display_or_store(
                             clipboard,
                             join([i \in 1..Len(Unwrap(self.data.uris)) |->
                                     Unwrap(self.data.uris)[i].uri],
                                  <<"\n">>),
                             store_ok)
                    ELSE Nothing
              [] field = <<"password">> ->
                    display_short(self, desc, clipboard, store_ok)
              [] OTHER -> CustomField(self, field, clipboard, store_ok)
      [] self.data.kind = "Card" ->
            CASE field \in {<<"number">>, <<"card">>} ->
                    display_short(self, desc, clipboard, store_ok)
              [] field = <<"exp">> ->
                    IF IsSome(self.data.exp_month) /\ IsSome(self.data.exp_year)
                    THEN val_display_or_store(
                             clipboard,
                             Unwrap(self.data.exp_month) \o <<"/">>
                                 \o Unwrap(self.data.exp_year),
                             store_ok)
                    ELSE Nothing
              [] field \in {<<"exp_month">>, <<"month">>} ->
                    IfSome(self.data.exp_month, clipboard, store_ok)
              [] field \in {<<"exp_year">>, <<"year">>} ->
                    IfSome(self.data.exp_year, clipboard, store_ok)
              [] field = <<"cvv">> -> IfSome(self.data.code, clipboard, store_ok)
              [] field \in {<<"name">>, <<"cardholder">>} ->
                    IfSome(self.data.cardholder_name, clipboard, store_ok)
              [] field \in {<<"brand">>, <<"type">>} ->
                    IfSome(self.data.brand, clipboard, store_ok)
              [] field = <<"notes">> -> IfSome(self.notes, clipboard, store_ok)
              [] OTHER -> CustomField(self, field, clipboard, store_ok)
      [] self.data.kind = "Identity" ->
            CASE field = <<"name">> ->
                    display_short(self, desc, clipboard, store_ok)
              [] field = <<"email">> ->
                    IfSome(self.data.email, clipboard, store_ok)
              [] field = <<"address">> ->
                    IF flatten(<<self.data.address1, self.data.address2,
                                 self.data.address3>>) # <<>>
                    THEN val_display_or_store(
                             clipboard,
                             join(flatten(<<self.data.address1,
                                            self.data.address2,
                                            self.data.address3>>), <<"\n">>),
                             store_ok)
                    ELSE Nothing
              [] field = <<"city">> -> IfSome(self.data.city, clipboard, store_ok)
              [] field = <<"state">> ->
                    IfSome(self.data.state, clipboard, store_ok)
              [] field \in {<<"postcode">>, <<"zipcode">>, <<"zip">>} ->
                    IfSome(self.data.postal_code, clipboard, store_ok)
              [] field = <<"country">> ->
                    IfSome(self.data.country, clipboard, store_ok)
              [] field = <<"phone">> ->
                    IfSome(self.data.phone, clipboard, store_ok)
              [] field = <<"ssn">> -> IfSome(self.data.ssn, clipboard, store_ok)
              [] field = <<"license">> ->
                    IfSome(self.data.license_number, clipboard, store_ok)
              [] field = <<"passport">> ->
                    IfSome(self.data.passport_number, clipboard, store_ok)
              [] field = <<"username">> ->
                    IfSome(self.data.username, clipboard, store_ok)
              [] field = <<"notes">> -> IfSome(self.notes, clipboard, store_ok)
              [] OTHER -> CustomField(self, field, clipboard, store_ok)
      [] self.data.kind = "SecureNote" ->
            CASE field \in {<<"note">>, <<"notes">>} ->
                    display_short(self, desc, clipboard, store_ok)
              [] OTHER -> CustomField(self, field, clipboard, store_ok)

\* DecryptedCipher::display_field
display_field(self, desc, field, clipboard, store_ok, now) ==
    DisplayFieldLower(self, desc, to_lowercase(field), clipboard, store_ok,
                      now)

\* fn display_field(name, field, clipboard): a labelled line
display_field_named(name, field, clipboard, store_ok) ==
    IF IsSome(field)
    THEN val_display_or_store(clipboard, name \o <<": ">> \o Unwrap(field),
                              store_ok)
    ELSE Nothing

\* displayed |= ... over a list of results: all the writes, and whether one
\* of them displayed
RECURSIVE Writes(_)
Writes(shown) ==
    IF shown = <<>> THEN <<>> ELSE Head(shown).w \o Writes(Tail(shown))
Displayed(shown) == \E i \in 1..Len(shown) : shown[i].r

\* the end of display_long: a blank line if something was displayed, and the
\* notes
WithNotes(shown, notes) ==
    Shown(Writes(shown)
          \o (IF IsSome(notes)
              THEN (IF Displayed(shown) THEN <<Stdout(<<>>)>> ELSE <<>>)
                   \o <<Stdout(Unwrap(notes))>>
              ELSE <<>>),
          FALSE)

\* the URI and Match type lines of a Login
UriLines(uris, clipboard, store_ok) ==
    IF IsSome(uris)
    THEN [k \in 1..(2 * Len(Unwrap(uris))) |->
            IF k % 2 = 1
            THEN display_field_named(<<"URI">>,
                                     Some(Unwrap(uris)[(k + 1) \div 2].uri),
                                     clipboard, store_ok)
            ELSE display_field_named(
                     <<"Match type">>,
                     IF IsSome(Unwrap(uris)[k \div 2].match_type)
                     THEN Some(<<Unwrap(Unwrap(uris)[k \div 2].match_type)>>)
                     ELSE None,
                     clipboard, store_ok)]
    ELSE <<>>

\* the lines of the custom fields
FieldLines(fields, clipboard, store_ok) ==
    [i \in 1..Len(fields) |->
        IF IsSome(fields[i].name)
        THEN display_field_named(
                 Unwrap(fields[i].name),
                 Some(IF IsSome(fields[i].value) THEN Unwrap(fields[i].value)
                      ELSE <<>>),
                 clipboard, store_ok)
        ELSE display_field_named(
                 <<"(null)">>,
                 Some(IF IsSome(fields[i].value) THEN Unwrap(fields[i].value)
                      ELSE <<>>),
                 clipboard, store_ok)]

\* DecryptedCipher::display_long
display_long(self, desc, clipboard, store_ok) ==
    CASE self.data.kind = "Login" ->
            WithNotes(
                <<display_short(self, desc, clipboard, store_ok),
                  display_field_named(<<"Username">>, self.data.username,
                                      clipboard, store_ok),
                  display_field_named(<<"TOTP Secret">>, self.data.totp,
                                      clipboard, store_ok)>>
                \o UriLines(self.data.uris, clipboard, store_ok)
                \o FieldLines(self.fields, clipboard, store_ok),
                self.notes)
      [] self.data.kind = "Card" ->
            WithNotes(
                <<display_short(self, desc, clipboard, store_ok),
                  IF IsSome(self.data.exp_month) /\ IsSome(self.data.exp_year)
                  THEN Shown(<<Stdout(<<"Expiration: ">>
                                      \o Unwrap(self.data.exp_month)
                                      \o <<"/">>
                                      \o Unwrap(self.data.exp_year))>>, TRUE)
                  ELSE Nothing,
                  display_field_named(<<"CVV">>, self.data.code, clipboard,
                                      store_ok),
                  display_field_named(<<"Name">>, self.data.cardholder_name,
                                      clipboard, store_ok),
                  display_field_named(<<"Brand">>, self.data.brand, clipboard,
                                      store_ok)>>,
                self.notes)
      [] self.data.kind = "Identity" ->
            WithNotes(
                <<display_short(self, desc, clipboard, store_ok),
                  display_field_named(<<"Address">>, self.data.address1,
                                      clipboard, store_ok),
                  display_field_named(<<"Address">>, self.data.address2,
                                      clipboard, store_ok),
                  display_field_named(<<"Address">>, self.data.address3,
                                      clipboard, store_ok),
                  display_field_named(<<"City">>, self.data.city, clipboard,
                                      store_ok),
                  display_field_named(<<"State">>, self.data.state, clipboard,
                                      store_ok),
                  display_field_named(<<"Postcode">>, self.data.postal_code,
                                      clipboard, store_ok),
                  display_field_named(<<"Country">>, self.data.country,
                                      clipboard, store_ok),
                  display_field_named(<<"Phone">>, self.data.phone, clipboard,
                                      store_ok),
                  display_field_named(<<"Email">>, self.data.email, clipboard,
                                      store_ok),
                  display_field_named(<<"SSN">>, self.data.ssn, clipboard,
                                      store_ok),
                  display_field_named(<<"License">>, self.data.license_number,
                                      clipboard, store_ok),
                  display_field_named(<<"Passport">>, self.data.passport_number,
                                      clipboard, store_ok),
                  display_field_named(<<"Username">>, self.data.username,
                                      clipboard, store_ok)>>,
                self.notes)
      [] self.data.kind = "SecureNote" ->
            display_short(self, desc, clipboard, store_ok)

\* DecryptedCipher::display_json: the entry as JSON and a line end, whatever
\* the clipboard flag
display_json(self, desc) == Shown(<<Stdout(Json(self))>>, TRUE)

\* format!("{user}@{needle}") of get and code
NeedleString(needle) ==
    CASE needle.kind = "Name" -> needle.name
      [] needle.kind = "Uri" -> url_to_string(needle.url)
      [] needle.kind = "Uuid" -> uuid_to_string(needle.uuid)
Desc(needle, user) ==
    (IF IsSome(user) THEN Unwrap(user) \o <<"@">> ELSE <<>>)
    \o NeedleString(needle)

(***************************************************************************)
(* find_entry_raw and find_entry.  entries is a sequence of pairs          *)
(* [entry, decrypted]; a list of matches is the sequence of their indexes  *)
(* in entries, in entry order.                                             *)
(***************************************************************************)
Indexes(entries) == [i \in 1..Len(entries) |-> i]

\* entries.iter().filter(exact_match).cloned().collect()
ExactMatches(entries, needle, username, folder, try_match_folder, ignore_case) ==
    LET keep(i) == exact_match(entries[i].decrypted, needle, username, folder,
                               try_match_folder, ignore_case)
    IN  SelectSeq(Indexes(entries), keep)

\* entries.iter().filter(partial_match).cloned().collect()
PartialMatches(entries, name, username, folder, try_match_folder, ignore_case) ==
    LET keep(i) == partial_match(entries[i].decrypted, name, username, folder,
                                 try_match_folder, ignore_case)
    IN  SelectSeq(Indexes(entries), keep)

\* Ok(matches[0].clone())
Found(entries, matches) ==
    [kind |-> "Ok", idx |-> matches[1], hit |-> Some(entries[matches[1]]),
     payload |-> <<>>]

NotFound == [kind |-> "NotFound", idx |-> 0, hit |-> None, payload |-> <<>>]
DecryptError ==
    [kind |-> "DecryptError", idx |-> 0, hit |-> None, payload |-> <<>>]

\* NoSingleMatch that settles an ambiguity by taking the first match
NoSingleMatchFirst(entries, matches) ==
    IF Len(matches) = 0 THEN NotFound ELSE Found(entries, matches)

\* the end of find_entry_raw: "no entry found" or "multiple entries found: .."
NoSingleMatch(entries, matches) ==
    IF Len(matches) = 0 THEN NotFound
    ELSE [kind |-> "Ambiguous", idx |-> 0, hit |-> None,
          payload |-> join([k \in 1..Len(matches) |->
                              display_name(entries[matches[k]].decrypted)],
                           <<", ">>)]

\* find_entry_raw without the return after the first pass
FindEntryRawNoFirstReturn(entries, needle, username, folder, ignore_case) ==
    LET m1 == ExactMatches(entries, needle, username, folder, TRUE,
                           ignore_case)
        m2 == ExactMatches(entries, needle, username, folder, FALSE,
                           ignore_case)
        m3 == PartialMatches(entries, needle.name, username, folder, TRUE,
                             ignore_case)
        m4 == PartialMatches(entries, needle.name, username, folder, FALSE,
                             ignore_case)
        exact == IF ~IsSome(folder) THEN m2 ELSE m1
    IN  IF ~IsSome(folder) /\ Len(m2) = 1 THEN Found(entries, m2)
        ELSE IF needle.kind = "Name"
             THEN IF Len(m3) = 1 THEN Found(entries, m3)
                  ELSE IF ~IsSome(folder)
                       THEN IF Len(m4) = 1 THEN Found(entries, m4)
                            ELSE NoSingleMatch(entries, m4)
                  ELSE NoSingleMatch(entries, m3)
        ELSE NoSingleMatch(entries, exact)

\* find_entry_raw without the second pass (exact, folder ignored)
FindEntryRawNoSecondPass(entries, needle, username, folder, ignore_case) ==
    LET m1 == ExactMatches(entries, needle, username, folder, TRUE,
                           ignore_case)
        m3 == PartialMatches(entries, needle.name, username, folder, TRUE,
                             ignore_case)
        m4 == PartialMatches(entries, needle.name, username, folder, FALSE,
                             ignore_case)
    IN  IF Len(m1) = 1 THEN Found(entries, m1)
        ELSE IF needle.kind = "Name"
             THEN IF Len(m3) = 1 THEN Found(entries, m3)
                  ELSE IF ~IsSome(folder)
                       THEN IF Len(m4) = 1 THEN Found(entries, m4)
                            ELSE NoSingleMatch(entries, m4)
                  ELSE NoSingleMatch(entries, m3)
        ELSE NoSingleMatch(entries, m1)

\* find_entry_raw without the third pass (partial, folder qualified)
FindEntryRawNoThirdPass(entries, needle, username, folder, ignore_case) ==
    LET m1 == ExactMatches(entries, needle, username, folder, TRUE,
                           ignore_case)
        m2 == ExactMatches(entries, needle, username, folder, FALSE,
                           ignore_case)
        m4 == PartialMatches(entries, needle.name, username, folder, FALSE,
                             ignore_case)
        exact == IF ~IsSome(folder) THEN m2 ELSE m1
    IN  IF Len(m1) = 1 THEN Found(entries, m1)
        ELSE IF ~IsSome(folder) /\ Len(m2) = 1 THEN Found(entries, m2)
        ELSE IF needle.kind = "Name" /\ ~IsSome(folder)
             THEN IF Len(m4) = 1 THEN Found(entries, m4)
                  ELSE NoSingleMatch(entries, m4)
        ELSE NoSingleMatch(entries, exact)

\* find_entry_raw that runs the folder-ignored passes whatever the folder
FindEntryRawFolderIgnored(entries, needle, username, folder, ignore_case) ==
    LET m1 == ExactMatches(entries, needle, username, folder, TRUE,
                           ignore_case)
        m2 == ExactMatches(entries, needle, username, folder, FALSE,
                           ignore_case)
        m3 == PartialMatches(entries, needle.name, username, folder, TRUE,
                             ignore_case)
        m4 == PartialMatches(entries, needle.name, username, folder, FALSE,
                             ignore_case)
    IN  IF Len(m1) = 1 THEN Found(entries, m1)
        ELSE IF Len(m2) = 1 THEN Found(entries, m2)
        ELSE IF needle.kind = "Name"
             THEN IF Len(m3) = 1 THEN Found(entries, m3)
                  ELSE IF Len(m4) = 1 THEN Found(entries, m4)
                  ELSE NoSingleMatch(entries, m4)
        ELSE NoSingleMatch(entries, m2)

find_entry_raw(entries, needle, username, folder, ignore_case) ==
    LET m1 == ExactMatches(entries, needle, username, folder, TRUE,
                           ignore_case)
        m2 == ExactMatches(entries, needle, username, folder, FALSE,
                           ignore_case)
        m3 == PartialMatches(entries, needle.name, username, folder, TRUE,
                             ignore_case)
        m4 == PartialMatches(entries, needle.name, username, folder, FALSE,
                             ignore_case)
        \* the value of matches after the exact passes
        exact == IF ~IsSome(folder) THEN m2 ELSE m1
    IN  IF Len(m1) = 1 THEN Found(entries, m1)
        ELSE IF ~IsSome(folder) /\ Len(m2) = 1 THEN Found(entries, m2)
        ELSE IF needle.kind = "Name"
             THEN IF Len(m3) = 1 THEN Found(entries, m3)
                  ELSE IF ~IsSome(folder)
                       THEN IF Len(m4) = 1 THEN Found(entries, m4)
                            ELSE NoSingleMatch(entries, m4)
                  ELSE NoSingleMatch(entries, m3)
        ELSE NoSingleMatch(entries, exact)

\* the decrypted database of find_entry: Ok(pairs) or Err
DecryptAll(entries) ==
    IF \A i \in 1..Len(entries) : IsSome(decrypt_cipher(entries[i]))
    THEN Some([i \in 1..Len(entries) |->
                 [entry |-> entries[i],
                  decrypted |-> Unwrap(decrypt_cipher(entries[i]))]])
    ELSE None

\* the index of the first entry of db whose id parses to uuid, 0 if none
FirstWithUuid(entries, uuid) ==
    IF \E i \in 1..Len(entries) : uuid_parse_str(entries[i].id) = Some(uuid)
    THEN CHOOSE i \in 1..Len(entries) :
            /\ uuid_parse_str(entries[i].id) = Some(uuid)
            /\ \A j \in 1..(i - 1) :
                  uuid_parse_str(entries[j].id) # Some(uuid)
    ELSE 0

\* find_entry that compares the id string with the needle's canonical form
FindEntryByIdString(entries, needle, username, folder, ignore_case) ==
    IF needle.kind = "Uuid"
    THEN LET same == {i \in 1..Len(entries) :
                        entries[i].id = uuid_to_string(needle.uuid)}
             i == CHOOSE i \in same : \A j \in same : i <= j
         IN  IF same = {} THEN NotFound
             ELSE IF IsSome(decrypt_cipher(entries[i]))
                  THEN [kind |-> "Ok", idx |-> i,
                        hit |-> Some([entry |-> entries[i],
                                      decrypted |->
                                          Unwrap(decrypt_cipher(entries[i]))]),
                        payload |-> <<>>]
             ELSE DecryptError
    ELSE IF IsSome(DecryptAll(entries))
         THEN find_entry_raw(Unwrap(DecryptAll(entries)), needle, username,
                             folder, ignore_case)
    ELSE DecryptError

find_entry(entries, needle, username, folder, ignore_case) ==
    IF needle.kind = "Uuid"
    THEN LET i == FirstWithUuid(entries, needle.uuid)
         IN  IF i = 0 THEN NotFound
             ELSE IF IsSome(decrypt_cipher(entries[i]))
                  THEN [kind |-> "Ok", idx |-> i,
                        hit |-> Some([entry |-> entries[i],
                                      decrypted |->
                                          Unwrap(decrypt_cipher(entries[i]))]),
                        payload |-> <<>>]
             ELSE DecryptError
    ELSE IF IsSome(DecryptAll(entries))
         THEN find_entry_raw(Unwrap(DecryptAll(entries)), needle, username,
                             folder, ignore_case)
    ELSE DecryptError

(***************************************************************************)
(* get and code.  The agent is unlocked and the database loads; both       *)
(* commands return before the resolver when it is not so.  Each yields the *)
(* resolver's result, what it writes and what it returns.                  *)
(***************************************************************************)
CouldntFind(needle, user) ==
    Err(<<"couldn't find entry for '">> \o Desc(needle, user) \o <<"'">>)

\* get with --full taking precedence over --raw
GetFullBeforeRaw(entries, needle, user, folder, field, full, raw, clipboard, ignore_case, store_ok, now) ==
    CHOOSE r \in
        {IF found.kind # "Ok"
         THEN [found |-> found, w |-> <<>>,
               returned |-> CouldntFind(needle, user)]
         ELSE [found |-> found,
               w |-> (IF full
                      THEN display_long(Unwrap(found.hit).decrypted,
                                        Desc(needle, user), clipboard,
                                        store_ok)
                      ELSE IF raw
                      THEN display_json(Unwrap(found.hit).decrypted,
                                        Desc(needle, user))
                      ELSE IF IsSome(field)
                      THEN display_field(Unwrap(found.hit).decrypted,
                                         Desc(needle, user), Unwrap(field),
                                         clipboard, store_ok, now)
                      ELSE display_short(Unwrap(found.hit).decrypted,
                                         Desc(needle, user), clipboard,
                                         store_ok)).w,
               returned |-> Ok(<<>>)] :
            found \in {find_entry(entries, needle, user, folder,
                                  ignore_case)}} : TRUE

\* get
get(entries, needle, user, folder, field, full, raw, clipboard, ignore_case, store_ok, now) ==
    CHOOSE r \in
        {IF found.kind # "Ok"
         THEN [found |-> found, w |-> <<>>,
               returned |-> CouldntFind(needle, user)]
         ELSE [found |-> found,
               w |-> (IF raw
                      THEN display_json(Unwrap(found.hit).decrypted,
                                        Desc(needle, user))
                      ELSE IF full
                      THEN display_long(Unwrap(found.hit).decrypted,
                                        Desc(needle, user), clipboard,
                                        store_ok)
                      ELSE IF IsSome(field)
                      THEN display_field(Unwrap(found.hit).decrypted,
                                         Desc(needle, user), Unwrap(field),
                                         clipboard, store_ok, now)
                      ELSE display_short(Unwrap(found.hit).decrypted,
                                         Desc(needle, user), clipboard,
                                         store_ok)).w,
               returned |-> Ok(<<>>)] :
            found \in {find_entry(entries, needle, user, folder,
                                  ignore_case)}} : TRUE

\* the end of code: the code of the totp secret of a Login
CodeOf(found, clipboard, store_ok, now) ==
    IF Unwrap(found.hit).decrypted.data.kind # "Login"
    THEN [found |-> found, w |-> <<>>,
          returned |-> Err(<<"not a login entry">>)]
    ELSE IF ~IsSome(Unwrap(found.hit).decrypted.data.totp)
    THEN [found |-> found, w |-> <<>>,
          returned |-> Err(<<"entry does not contain a totp secret">>)]
    ELSE CHOOSE r \in
            {IF generated.ok
             THEN [found |-> found,
                   w |-> val_display_or_store(clipboard, generated.val,
                                              store_ok).w,
                   returned |-> Ok(<<>>)]
             ELSE [found |-> found, w |-> <<>>, returned |-> generated] :
                generated \in
                    {generate_totp(
                         Unwrap(Unwrap(found.hit).decrypted.data.totp),
                         now)}} : TRUE

\* code
code(entries, needle, user, folder, clipboard, ignore_case, store_ok, now) ==
    CHOOSE r \in
        {IF found.kind # "Ok"
         THEN [found |-> found, w |-> <<>>,
               returned |-> CouldntFind(needle, user)]
         ELSE CodeOf(found, clipboard, store_ok, now) :
            found \in {find_entry(entries, needle, user, folder,
                                  ignore_case)}} : TRUE

\* the texts that a sequence of writes sends to one sink
Sink(w, to) ==
    LET Is(x) == x.to = to
    IN  [i \in 1..Len(SelectSeq(w, Is)) |-> SelectSeq(w, Is)[i].text]

(***************************************************************************)
(* parse_editor.  The buffer is a string of characters; "\n" ends a line.  *)
(***************************************************************************)
RECURSIVE lines(_)
\* str::lines: the pieces between line ends, without a last empty piece
lines(s) ==
    IF s = <<>> THEN <<>>
    ELSE <<SubSeq(s, 1, Find(s, "\n", 1, Len(s)) - 1)>>
         \o lines(SubSeq(s, Find(s, "\n", 1, Len(s)) + 1, Len(s)))

RECURSIVE SkipWhileEmpty(_)
\* .skip_while(|line| line.is_empty())
SkipWhileEmpty(ls) ==
    IF ls # <<>> /\ Head(ls) = <<>> THEN SkipWhileEmpty(Tail(ls)) ELSE ls

\* .filter(|line| !line.starts_with('#'))
IsNoComment(line) == ~starts_with(line, <<"#">>)
FilterComments(ls) == SelectSeq(ls, IsNoComment)

RECURSIVE FoldLines(_)
\* .fold(String::new(), ...): every line followed by a line end
FoldLines(ls) ==
    IF ls = <<>> THEN <<>> ELSE Head(ls) \o <<"\n">> \o FoldLines(Tail(ls))

RECURSIVE PopLineEnds(_)
\* while notes.ends_with('\n') { notes.pop(); }
PopLineEnds(notes) ==
    IF notes # <<>> /\ notes[Len(notes)] = "\n"
    THEN PopLineEnds(SubSeq(notes, 1, Len(notes) - 1))
    ELSE notes

\* the notes of the lines that follow the password
NotesOf(rest) ==
    CHOOSE o \in
        {IF notes = <<>> THEN None ELSE Some(notes) :
            notes \in {PopLineEnds(FoldLines(FilterComments(
                          SkipWhileEmpty(rest))))}} : TRUE

\* parse_editor that drops the comments before it skips the empty lines
ParseEditorFilterFirst(contents) ==
    CHOOSE r \in
        {[password |-> IF ls = <<>> THEN None ELSE Some(Head(ls)),
          notes |-> IF ls = <<>> THEN None
                    ELSE CHOOSE o \in
                            {IF notes = <<>> THEN None ELSE Some(notes) :
                                notes \in {PopLineEnds(FoldLines(
                                    SkipWhileEmpty(FilterComments(
                                        Tail(ls)))))}} : TRUE] :
            ls \in {lines(contents)}} : TRUE

\* a line of white space only
IsBlank(line) == \A i \in 1..Len(line) : line[i] = " "

RECURSIVE SkipToPassword(_)
\* the lines from the first one that is neither blank nor a comment
SkipToPassword(ls) ==
    IF ls # <<>> /\ (IsBlank(Head(ls)) \/ ~IsNoComment(Head(ls)))
    THEN SkipToPassword(Tail(ls))
    ELSE ls

\* parse_editor that takes the first line that is neither blank nor a
\* comment for the password
ParseEditorSkipsToPassword(contents) ==
    CHOOSE r \in
        {[password |-> IF ls = <<>> THEN None ELSE Some(Head(ls)),
          notes |-> IF ls = <<>> THEN None ELSE NotesOf(Tail(ls))] :
            ls \in {SkipToPassword(lines(contents))}} : TRUE

\* parse_editor: (password, notes)
parse_editor(contents) ==
    CHOOSE r \in
        {[password |-> IF ls = <<>> THEN None ELSE Some(Head(ls)),
          notes |-> IF ls = <<>> THEN None ELSE NotesOf(Tail(ls))] :
            ls \in {lines(contents)}} : TRUE

(***************************************************************************)
(* The strings and entries of the model                                    *)
(***************************************************************************)
\* the largest number of entries of a database
MaxEntries == 2

\* entry names, user names and folder names, one character per symbol
Names == {<<"a">>, <<"A">>, <<"a", "b">>}

HttpsOne == <<"https", ":", "//", "one", ".", "com", "/">>
HttpsLoginOne == <<"https", ":", "//", "login", ".", "one", ".", "com", "/">>

\* the UUID of the i-th entry made by make_entry: new_v4() gives every entry
\* its own
IdValue(i) == << <<"a1", "b1", "c1", "d1">>[i], "a2", "a3", "a4", "a5">>

\* rbw::db::Entry with a Login, as make_entry builds it
LoginEntry(id, name, username, folder, uris) ==
    [id |-> id,
     folder |-> IF IsSome(folder) THEN Some(Cipher(Unwrap(folder))) ELSE None,
     name |-> name,
     data |-> [kind |-> "Login",
               username |-> IF IsSome(username)
                            THEN Some(Cipher(Unwrap(username))) ELSE None,
               password |-> None,
               totp |-> None,
               uris |-> [i \in 1..Len(uris) |->
                           [uri |-> Cipher(uris[i].uri),
                            match_type |-> uris[i].match_type]]],
     fields |-> <<>>,
     notes |-> None,
     history |-> <<>>]

\* rbw::db::Entry with a SecureNote
NoteEntry(id, name, folder) ==
    [id |-> id,
     folder |-> IF IsSome(folder) THEN Some(Cipher(Unwrap(folder))) ELSE None,
     name |-> name,
     data |-> [kind |-> "SecureNote"],
     fields |-> <<>>,
     notes |-> None,
     history |-> <<>>]

\* the entries a database of the resolver model may hold at position i
EntryUniverse(i) ==
    LET id == uuid_to_string(IdValue(i))
    IN  {LoginEntry(id, Cipher(n), u, f, <<>>) :
            n \in {<<"a">>, <<"a", "b">>}, u \in {None, Some(<<"u">>)},
            f \in {None, Some(<<"f">>)}}
        \cup {LoginEntry(id, Cipher(<<"A">>), None, None, <<>>),
              LoginEntry(id, Cipher(<<"A">>), Some(<<"u">>), Some(<<"f">>),
                         <<>>),
              LoginEntry(id, Cipher(<<"a">>), None, Some(<<"f", "g">>), <<>>),
              LoginEntry(id, Cipher(<<"a">>), Some(<<"u", "v">>), None, <<>>),
              LoginEntry(id, Cipher(<<"a">>), Some(<<"U">>), None, <<>>),
              NoteEntry(id, Cipher(<<"a">>), None),
              LoginEntry(id, Cipher(<<"a", "b">>), None, None,
                         <<[uri |-> HttpsOne, match_type |-> None]>>),
              LoginEntry(id, Cipher(<<"a">>), None, Some(<<"f">>),
                         <<[uri |-> HttpsOne, match_type |-> Some("Domain")]>>)}

RECURSIVE DatabasesOfLen(_)
DatabasesOfLen(n) ==
    IF n = 0 THEN {<<>>}
    ELSE {Append(d, e) : d \in DatabasesOfLen(n - 1), e \in EntryUniverse(n)}

Databases == UNION {DatabasesOfLen(n) : n \in 0..MaxEntries}

\* the needle arguments, user names and folders of the resolver model
NeedleArgs ==
    {<<"a">>, <<"A">>, HttpsLoginOne,
     to_uppercase(uuid_to_string(IdValue(1)))}
\* the needles the argument parser makes of them
Needles == {parse_needle(arg) : arg \in NeedleArgs}
UsernameArgs == {None, Some(<<"u">>)}
FolderArgs == {None, Some(<<"f">>)}

(***************************************************************************)
(* State                                                                   *)
(***************************************************************************)
VARIABLES
    db,       \* rbw::db::Db.entries
    ciphers,  \* the pairs (entry, decrypted) that find_entry_raw is given
    call,     \* the resolver call of this invocation and its arguments
    result,   \* what the call returned
    stored,   \* a DecryptedUri of a Login
    query,    \* the Url that matches_url is given
    matched,  \* what matches_url returned, None before the call
    input,    \* a command line argument, or the contents of the edit buffer
    parsed,   \* what the parser made of it, None before the call
    stdout,   \* the lines printed with println!
    stderr,   \* the lines printed with eprintln!
    clip,     \* the texts handed to the clipboard of the agent
    returned, \* what the command returned, None while it has not
    agent,    \* the agent process and the position of ensure_agent
    effects,  \* the calls a command made to the agent, the editor, the
              \* server and the disk, in order
    config    \* the configuration file, None while there is none to load

vars ==
    <<db, ciphers, call, result, stored, query, matched, input, parsed,
      stdout, stderr, clip, returned, agent, effects, config>>

\* what a command writes and returns
output == <<stdout, stderr, clip, returned>>

NoCall ==
    [op |-> "none", needle |-> NeedleName(<<>>), username |-> None,
     folder |-> None, ignore_case |-> FALSE]
NoResult == [kind |-> "None", idx |-> 0, hit |-> None, payload |-> <<>>]

\* no database and no resolver call
NoResolver ==
    db = <<>> /\ ciphers = <<>> /\ call = NoCall /\ result = NoResult
\* no URI to match
NoUri ==
    /\ stored = [uri |-> <<>>, match_type |-> None]
    /\ query = <<>>
    /\ matched = None
\* no argument to parse
NoInput == input = <<>> /\ parsed = None
\* nothing written, nothing returned
NoOutput == stdout = <<>> /\ stderr = <<>> /\ clip = <<>> /\ returned = None
\* no call made yet
NoEffects == effects = <<>>
\* no configuration file
NoConfig == config = None
\* ensure_agent not called, no agent running
NoAgent ==
    agent = [pc |-> "none", config_ok |-> TRUE, running |-> None,
             installed |-> None, launches |-> 0, exits |-> <<>>, quits |-> 0,
             read |-> <<>>]

(***************************************************************************)
(* The resolver on decrypted entries                                       *)
(***************************************************************************)
\* find_entry_raw on the decrypted entries, as the tests call it
FindEntryRaw(needle, username, folder, ignore_case) ==
    /\ call.op = "none"
    /\ call' = [op |-> "find_entry_raw", needle |-> needle,
                username |-> username, folder |-> folder,
                ignore_case |-> ignore_case]
    /\ result' = find_entry_raw(ciphers, needle, username, folder,
                                ignore_case)
    /\ UNCHANGED <<db, ciphers, stored, query, matched, input, parsed>>
    /\ UNCHANGED <<output, agent, effects, config>>

\* the entries of the tests: every pair is an entry and its decryption
Init ==
    /\ db \in Databases
    /\ ciphers = Unwrap(DecryptAll(db))
    /\ call = NoCall
    /\ result = NoResult
    /\ NoUri
    /\ NoInput
    /\ NoOutput
    /\ NoAgent
    /\ NoEffects
    /\ NoConfig

Next ==
    \E needle \in Needles, username \in UsernameArgs, folder \in FolderArgs,
       ignore_case \in BOOLEAN :
        FindEntryRaw(needle, username, folder, ignore_case)

Spec == Init /\ [][Next]_vars

(***************************************************************************)
(* The resolver on the database, as the commands call it                   *)
(***************************************************************************)
U1 == <<"a1", "a2", "a3", "a4", "a5">>
U2 == <<"b1", "a2", "a3", "a4", "a5">>
U3 == <<"c1", "a2", "a3", "a4", "a5">>

\* entry ids: the same UUID in three spellings, another UUID, and a string
\* that is no UUID
IdStrings ==
    {uuid_to_string(U1), to_uppercase(uuid_to_string(U1)), to_uppercase(U1),
     uuid_to_string(U2), <<"x">>}

\* entries whose name the agent can or cannot decrypt
FindEntryUniverse ==
    {LoginEntry(id, name, None, None, <<>>) :
        id \in IdStrings, name \in {Cipher(<<"a">>), Broken(<<"a">>)}}

RECURSIVE FindDatabasesOfLen(_)
FindDatabasesOfLen(n) ==
    IF n = 0 THEN {<<>>}
    ELSE {Append(d, e) : d \in FindDatabasesOfLen(n - 1),
                         e \in FindEntryUniverse}

FindDatabases == UNION {FindDatabasesOfLen(n) : n \in 0..MaxEntries}

FindArgs ==
    {uuid_to_string(U1), to_uppercase(uuid_to_string(U1)), U1,
     UrnPrefix \o uuid_to_string(U2), uuid_to_string(U3), <<"a">>}

FindNeedles == {parse_needle(arg) : arg \in FindArgs}

\* find_entry, as get, code, edit, remove and history call it
FindEntry(needle, username, folder, ignore_case) ==
    /\ call.op = "none"
    /\ call' = [op |-> "find_entry", needle |-> needle,
                username |-> username, folder |-> folder,
                ignore_case |-> ignore_case]
    /\ result' = find_entry(db, needle, username, folder, ignore_case)
    /\ UNCHANGED <<db, ciphers, stored, query, matched, input, parsed>>
    /\ UNCHANGED <<output, agent, effects, config>>

InitFind ==
    /\ db \in FindDatabases
    /\ ciphers = <<>>
    /\ call = NoCall
    /\ result = NoResult
    /\ NoUri
    /\ NoInput
    /\ NoOutput
    /\ NoAgent
    /\ NoEffects
    /\ NoConfig

NextFind ==
    \E needle \in FindNeedles, username \in UsernameArgs,
       folder \in FolderArgs, ignore_case \in BOOLEAN :
        FindEntry(needle, username, folder, ignore_case)

SpecFind == InitFind /\ [][NextFind]_vars

(***************************************************************************)
(* URI matching                                                            *)
(***************************************************************************)
Hosts ==
    {<<"one", ".", "com">>, <<"login", ".", "one", ".", "com">>,
     <<"not", "one", ".", "com">>, <<"com">>,
     <<"example", ".", "co", ".", "uk">>,
     <<"login", ".", "example", ".", "co", ".", "uk">>,
     <<"10.0.0.1">>}
Ports == {None, Some("443"), Some("8080")}
Paths == {<<"/">>, <<"/", "login">>}

\* scheme://host[:port]path
UrlString(scheme, host, port, path) ==
    <<scheme, ":", "//">> \o WithPort(host, port) \o path

QueryStrings ==
    {UrlString(s, h, p, path) :
        s \in {"https", "http"}, h \in Hosts, p \in Ports, path \in Paths}

\* stored URIs: URLs, bare hosts with and without a port, the empty string
\* and regular expressions
StoredStrings ==
    {UrlString(s, h, p, path) :
        s \in {"https", "http"}, h \in Hosts, p \in Ports,
        path \in Paths \cup {<<>>}}
    \cup {WithPort(h, p) : h \in Hosts, p \in Ports}
    \cup {<<>>,
          <<"^", "https", ":", "//", "one", "\\.", "com", "/">>,
          <<"one", ".", "com", "/", "$">>,
          <<"(", "one">>}

MatchesUrl ==
    /\ matched = None
    /\ query # <<>>
    /\ matched' = Some(matches_url(stored, query))
    /\ UNCHANGED <<db, ciphers, call, result, stored, query, input, parsed>>
    /\ UNCHANGED <<output, agent, effects, config>>

InitUri ==
    /\ NoResolver
    /\ stored \in {[uri |-> s, match_type |-> m] :
                     s \in StoredStrings,
                     m \in {None} \cup {Some(t) : t \in UriMatchType}}
    /\ query \in {Unwrap(url_parse(s)) : s \in QueryStrings}
    /\ matched = None
    /\ NoInput
    /\ NoOutput
    /\ NoAgent
    /\ NoEffects
    /\ NoConfig

NextUri == MatchesUrl

SpecUri == InitUri /\ [][NextUri]_vars

(***************************************************************************)
(* The resolver on Logins with several URIs                                *)
(***************************************************************************)
\* URIs that match no query of the model: the Never match type, a regular
\* expression that does not compile, and a string that is no URL under the
\* other match types
UnmatchedUris ==
    {[uri |-> HttpsOne, match_type |-> Some("Never")],
     [uri |-> <<"(", "one">>, match_type |-> Some("RegularExpression")]}
    \cup {[uri |-> <<"two", ".", "com">>, match_type |-> m] :
            m \in {None, Some("Host"), Some("StartsWith"), Some("Exact")}}

\* URIs that match a query of the model: a URL and a string that is no URL
MatchedUris ==
    {[uri |-> HttpsOne, match_type |-> None],
     [uri |-> <<"one", ".", "com">>, match_type |-> Some("Host")]}

\* the Login a database of this model may hold at position i
UrisEntryUniverse(i) ==
    {LoginEntry(uuid_to_string(IdValue(i)), Cipher(<<"a">>), None, None, uris) :
        uris \in {<<>>}
                 \cup {<<u>> : u \in UnmatchedUris \cup MatchedUris}
                 \cup {<<u, v>> : u \in UnmatchedUris, v \in MatchedUris}}

RECURSIVE UrisDatabasesOfLen(_)
UrisDatabasesOfLen(n) ==
    IF n = 0 THEN {<<>>}
    ELSE {Append(d, e) : d \in UrisDatabasesOfLen(n - 1),
                         e \in UrisEntryUniverse(n)}

UrisDatabases == UNION {UrisDatabasesOfLen(n) : n \in 0..MaxEntries}

UriNeedles == {parse_needle(HttpsOne), parse_needle(HttpsLoginOne)}

InitUris ==
    /\ db \in UrisDatabases
    /\ ciphers = Unwrap(DecryptAll(db))
    /\ call = NoCall
    /\ result = NoResult
    /\ NoUri
    /\ NoInput
    /\ NoOutput
    /\ NoAgent
    /\ NoEffects
    /\ NoConfig

NextUris ==
    \E needle \in UriNeedles, ignore_case \in BOOLEAN :
        FindEntryRaw(needle, None, None, ignore_case)

SpecUris == InitUris /\ [][NextUris]_vars

(***************************************************************************)
(* decrypt_cipher on one entry                                             *)
(***************************************************************************)
\* a ciphertext field of an entry: absent, decryptable or not
FieldCiphers(plain) == {None, Some(Cipher(plain)), Some(Broken(plain))}

\* entry.data: Logins, a Card and a SecureNote
DataUniverse ==
    {[kind |-> "Login", username |-> u, password |-> None,
      totp |-> Some(Cipher(<<"t">>)), uris |-> uris] :
        u \in {Some(Cipher(<<"u">>)), Some(Broken(<<"u">>))},
        uris \in {<<>>,
                  <<[uri |-> Cipher(HttpsOne), match_type |-> None],
                    [uri |-> Broken(HttpsOne), match_type |-> None]>>}}
    \cup {[kind |-> "Card", cardholder_name |-> None,
           number |-> Some(Broken(<<"n">>)), brand |-> None,
           exp_month |-> Some(Cipher(<<"m">>)), exp_year |-> None,
           code |-> Some(Broken(<<"c">>))],
          [kind |-> "SecureNote"]}

\* entry.fields
FieldsUniverse ==
    {<<>>}
    \cup {<<[name |-> n, value |-> v, ty |-> "text"]>> :
            n \in {Some(Cipher(<<"k">>)), Some(Broken(<<"k">>))},
            v \in FieldCiphers(<<"v">>)}

\* entry.history
HistoryUniverse ==
    {<<>>,
     <<[last_used_date |-> <<"d">>, password |-> Cipher(<<"p">>)]>>,
     <<[last_used_date |-> <<"d">>, password |-> Cipher(<<"p">>)],
       [last_used_date |-> <<"d">>, password |-> Broken(<<"q">>)]>>}

\* rbw::db::Entry
DecryptEntryUniverse ==
    [id : {uuid_to_string(U1)},
     folder : FieldCiphers(<<"f">>),
     name : {Cipher(<<"a">>), Broken(<<"a">>)},
     data : DataUniverse,
     fields : FieldsUniverse,
     notes : FieldCiphers(<<"n">>),
     history : HistoryUniverse]

\* decrypt_cipher on the entry of the database
DecryptCipher ==
    /\ call.op = "none"
    /\ call' = [NoCall EXCEPT !.op = "decrypt_cipher"]
    /\ result' = IF IsSome(decrypt_cipher(db[1]))
                 THEN [kind |-> "Ok", idx |-> 1,
                       hit |-> Some([entry |-> db[1],
                                     decrypted |->
                                         Unwrap(decrypt_cipher(db[1]))]),
                       payload |-> <<>>]
                 ELSE DecryptError
    /\ UNCHANGED <<db, ciphers, stored, query, matched, input, parsed>>
    /\ UNCHANGED <<output, agent, effects, config>>

InitDecrypt ==
    /\ db \in {<<e>> : e \in DecryptEntryUniverse}
    /\ ciphers = <<>>
    /\ call = NoCall
    /\ result = NoResult
    /\ NoUri
    /\ NoInput
    /\ NoOutput
    /\ NoAgent
    /\ NoEffects
    /\ NoConfig

NextDecrypt == DecryptCipher

SpecDecrypt == InitDecrypt /\ [][NextDecrypt]_vars

(***************************************************************************)
(* get and code on a database                                              *)
(***************************************************************************)
\* totp secrets: a bare one, one that is not base32, an otpauth URL, and
\* URLs with each of the faults that parse_totp_secret and generate_totp
\* report
OtpUrl(params) ==
    <<"otpauth", ":", "//", "totp", "/", "x", "?">> \o params
GetTotps ==
    {<<"JBSW">>, <<"x1">>,
     OtpUrl(<<"secret", "=", "JBSW", "&", "algorithm", "=", "SHA256", "&",
              "digits", "=", "8">>),
     OtpUrl(<<"secret", "=", "JBSW", "&", "algorithm", "=", "sha1">>),
     OtpUrl(<<"secret", "=", "JBSW", "&", "digits", "=", "x">>),
     OtpUrl(<<"secret", "=", "JBSW", "&", "period", "=", "x">>),
     OtpUrl(<<"secret", "=", "x1">>),
     OtpUrl(<<"digits", "=", "8">>),
     <<"otpauth", ":", "//", "hotp", "/", "x", "?", "secret", "=", "JBSW">>,
     <<"https", ":", "//", "totp", "/", "x", "?", "secret", "=", "JBSW">>}

OptCipher(plains) == {None} \cup {Some(Cipher(p)) : p \in plains}

\* rbw::db::Entry of each variant
GetEntry(data, fields, notes) ==
    [id |-> uuid_to_string(U1), folder |-> None, name |-> Cipher(<<"a">>),
     data |-> data, fields |-> fields, notes |-> notes, history |-> <<>>]

GetEntryUniverse ==
    {GetEntry([kind |-> "Login", username |-> None, password |-> password,
               totp |-> totp,
               uris |-> <<[uri |-> Cipher(HttpsOne),
                           match_type |-> Some("Host")]>>],
              fields, notes) :
        password \in OptCipher({<<"p">>}), totp \in OptCipher(GetTotps),
        fields \in {<<>>, <<[name |-> Some(Cipher(<<"K", "e", "y">>)),
                             value |-> Some(Cipher(<<"v">>)),
                             ty |-> "text"]>>},
        notes \in OptCipher({<<"n">>})}
    \cup {GetEntry([kind |-> "Card", cardholder_name |-> None,
                    number |-> number, brand |-> Some(Cipher(<<"b">>)),
                    exp_month |-> Some(Cipher(<<"m">>)),
                    exp_year |-> exp_year, code |-> None],
                   <<>>, notes) :
            number \in OptCipher({<<"c">>}), exp_year \in OptCipher({<<"y">>}),
            notes \in OptCipher({<<"n">>})}
    \cup {GetEntry([kind |-> "Identity", title |-> None,
                    first_name |-> first_name,
                    middle_name |-> None,
                    last_name |-> first_name, address1 |-> None,
                    address2 |-> Some(Cipher(<<"s">>)), address3 |-> None,
                    city |-> None, state |-> None, postal_code |-> None,
                    country |-> None, phone |-> None,
                    email |-> Some(Cipher(<<"e">>)), ssn |-> None,
                    license_number |-> None, passport_number |-> None,
                    username |-> None],
                   <<>>, notes) :
            first_name \in OptCipher({<<"i">>}),
            notes \in OptCipher({<<"n">>})}
    \cup {GetEntry([kind |-> "SecureNote"], <<>>, notes) :
            notes \in OptCipher({<<"n">>})}

\* no entry, one entry, or two entries of the same name
GetDatabases ==
    {<<>>} \cup {<<e>> : e \in GetEntryUniverse}
    \cup {<<e, e>> : e \in {GetEntry([kind |-> "SecureNote"], <<>>, None)}}

GetNeedles == {NeedleName(<<"a">>), NeedleName(<<"z">>)}
GetFields ==
    {None, Some(<<"totp">>), Some(<<"CODE">>), Some(<<"notes">>),
     Some(<<"password">>), Some(<<"exp">>), Some(<<"k">>)}
\* seconds since the epoch; None is a clock before the epoch
Clocks == {None, Some(45)}

\* the command line of the invocation
CommandLine(op, needle, field, full, raw, clipboard, store_ok, now) ==
    [op |-> op, needle |-> needle, username |-> None, folder |-> None,
     ignore_case |-> FALSE, field |-> field, full |-> full, raw |-> raw,
     clipboard |-> clipboard, store_ok |-> store_ok, now |-> now]

\* what a command did: the resolver's result, the writes, the return value
Done(r) ==
    /\ result' = r.found
    /\ stdout' = stdout \o Sink(r.w, "stdout")
    /\ stderr' = stderr \o Sink(r.w, "stderr")
    /\ clip' = clip \o Sink(r.w, "clip")
    /\ returned' = Some(r.returned)

\* rbw get
Get(needle, field, full, raw, clipboard, store_ok, now) ==
    /\ call.op = "none"
    /\ call' = CommandLine("get", needle, field, full, raw, clipboard,
                           store_ok, now)
    /\ \E r \in {get(db, needle, None, None, field, full, raw, clipboard,
                     FALSE, store_ok, now)} : Done(r)
    /\ UNCHANGED <<db, ciphers, stored, query, matched, input, parsed>>
    /\ UNCHANGED <<agent, effects, config>>

\* rbw code
Code(needle, clipboard, store_ok, now) ==
    /\ call.op = "none"
    /\ call' = CommandLine("code", needle, None, FALSE, FALSE, clipboard,
                           store_ok, now)
    /\ \E r \in {code(db, needle, None, None, clipboard, FALSE, store_ok,
                      now)} : Done(r)
    /\ UNCHANGED <<db, ciphers, stored, query, matched, input, parsed>>
    /\ UNCHANGED <<agent, effects, config>>

InitGet ==
    /\ db \in GetDatabases
    /\ ciphers = <<>>
    /\ call = NoCall
    /\ result = NoResult
    /\ NoUri
    /\ NoInput
    /\ NoOutput
    /\ NoAgent
    /\ NoEffects
    /\ NoConfig

NextGet ==
    \E needle \in GetNeedles, clipboard \in BOOLEAN, store_ok \in BOOLEAN,
       now \in Clocks :
        \/ \E field \in GetFields, full \in BOOLEAN, raw \in BOOLEAN :
              Get(needle, field, full, raw, clipboard, store_ok, now)
        \/ Code(needle, clipboard, store_ok, now)

SpecGet == InitGet /\ [][NextGet]_vars

(***************************************************************************)
(* parse_editor on the buffer that the editor hands back                   *)
(***************************************************************************)
MaxLen == 6
\* a letter, the comment mark, a space and the line end
BufferChars == {"x", "#", " ", "\n"}
Buffers == UNION {[1..n -> BufferChars] : n \in 0..MaxLen}

\* parse_editor(&contents), as add and edit call it
ParseEditor ==
    /\ parsed = None
    /\ parsed' = Some(parse_editor(input))
    /\ UNCHANGED <<db, ciphers, call, result, stored, query, matched, input>>
    /\ UNCHANGED <<output, agent, effects, config>>

InitEditor ==
    /\ NoResolver
    /\ NoUri
    /\ input \in Buffers
    /\ parsed = None
    /\ NoOutput
    /\ NoAgent
    /\ NoEffects
    /\ NoConfig

NextEditor == ParseEditor

SpecEditor == InitEditor /\ [][NextEditor]_vars

(***************************************************************************)
(* generate_totp on a totp secret                                          *)
(***************************************************************************)
\* the query of an otpauth URL: each parameter absent or with one of its
\* values
QueryOf(secret, algorithm, digits, period) ==
    join(flatten(<<
        IF IsSome(secret) THEN Some(<<"secret", "=">> \o Unwrap(secret))
        ELSE None,
        IF IsSome(algorithm)
        THEN Some(<<"algorithm", "=">> \o Unwrap(algorithm)) ELSE None,
        IF IsSome(digits) THEN Some(<<"digits", "=">> \o Unwrap(digits))
        ELSE None,
        IF IsSome(period) THEN Some(<<"period", "=">> \o Unwrap(period))
        ELSE None>>), <<"&">>)

SecretParams == {None, Some(<<"JBSW">>), Some(<<"mfrg">>), Some(<<"x1">>)}
AlgorithmParams ==
    {None, Some(<<"SHA1">>), Some(<<"SHA256">>), Some(<<"SHA512">>),
     Some(<<"sha1">>), Some(<<"MD5">>)}
DigitsParams == {None, Some(<<"8">>), Some(<<"x">>)}
PeriodParams == {None, Some(<<"60">>), Some(<<"0">>), Some(<<"x">>)}

\* bare secrets, and URLs of two schemes and two hosts with every query
TotpSecrets ==
    {<<"JBSW">>, <<"mfrg">>, <<" ", "JBSW", " ">>, <<"JBSW", "mfrg">>,
     <<"x1">>}
    \cup {<<scheme, ":", "//", host, "/", "x", "?">>
            \o QueryOf(secret, algorithm, digits, period) :
            scheme \in {"otpauth", "https"}, host \in {"totp", "hotp"},
            secret \in SecretParams, algorithm \in AlgorithmParams,
            digits \in DigitsParams, period \in PeriodParams}

\* generate_totp(secret); parsed keeps what parse_totp_secret made of it
GenerateTotpCall(now) ==
    /\ parsed = None
    /\ parsed' = Some(parse_totp_secret(input))
    /\ returned' = Some(generate_totp(input, now))
    /\ call' = [NoCall EXCEPT !.op = "generate_totp"]
    /\ UNCHANGED <<db, ciphers, result, stored, query, matched, input>>
    /\ UNCHANGED <<stdout, stderr, clip, agent, effects, config>>

InitTotp ==
    /\ NoResolver
    /\ NoUri
    /\ input \in TotpSecrets
    /\ parsed = None
    /\ NoOutput
    /\ NoAgent
    /\ NoEffects
    /\ NoConfig

NextTotp == \E now \in Clocks : GenerateTotpCall(now)

SpecTotp == InitTotp /\ [][NextTotp]_vars

(***************************************************************************)
(* ensure_agent.  agent holds the position of ensure_agent (pc and round), *)
(* whether the configuration is valid, the protocol version of the agent   *)
(* that runs (None when none does), the version of the rbw-agent binary,   *)
(* how often rbw-agent was launched and asked to quit, and the versions    *)
(* read.  Every call of the environment may fail.                          *)
(***************************************************************************)
\* rbw::protocol::version() of the client, and the versions of agents
ClientVersion == "v2"
Versions == {"v1", "v2", "v3"}

\* ensure_agent returns
Return(value) ==
    /\ returned' = Some(value)
    /\ UNCHANGED <<db, ciphers, call, result, stored, query, matched, input,
                   parsed, stdout, stderr, clip, effects, config>>
\* ensure_agent goes on
Continue ==
    UNCHANGED <<db, ciphers, call, result, stored, query, matched, input,
                parsed, output, effects, config>>

\* check_config()?
CheckConfig ==
    /\ agent.pc = "check_config"
    /\ IF agent.config_ok
       THEN /\ agent' = [agent EXCEPT !.pc = "launch"]
            /\ Continue
       ELSE /\ agent' = [agent EXCEPT !.pc = "done"]
            /\ Return(Err(<<"invalid config">>))

\* how the rbw-agent command ends: it cannot be run, it exits with 0 after
\* it started an agent, with 23 because an agent runs already, with another
\* code, or it is killed by a signal
LaunchStatuses == {"not run", "exit 0", "exit 23", "exit 1", "signal"}

\* ensure_agent_once()?
EnsureAgentOnce(status) ==
    /\ agent.pc = "launch"
    /\ status = "exit 0" => agent.running = None
    /\ status = "exit 23" => agent.running # None
    /\ IF status \in {"exit 0", "exit 23", "signal"}
       THEN /\ agent' = [agent EXCEPT
                            !.pc = "version",
                            !.launches = @ + 1,
                            !.exits = Append(@, status),
                            !.running = IF status = "exit 0"
                                        THEN Some(agent.installed) ELSE @]
            /\ Continue
       ELSE /\ agent' = [agent EXCEPT !.pc = "done", !.launches = @ + 1,
                                      !.exits = Append(@, status)]
            /\ Return(Err(<<"failed to run rbw-agent", status>>))

\* version_or_quit that takes the second version read for the client's
VersionOrQuitTrustsSecond(ok, quit_ok) ==
    /\ agent.pc = "version"
    /\ IF ok /\ IsSome(agent.running)
       THEN IF Unwrap(agent.running) = ClientVersion \/ agent.round = 2
            THEN /\ agent' = [agent EXCEPT
                                 !.pc = "done",
                                 !.read = Append(@, Unwrap(agent.running))]
                 /\ Return(Ok(<<>>))
            ELSE /\ agent' = [agent EXCEPT
                                 !.pc = "quit",
                                 !.read = Append(@, Unwrap(agent.running))]
                 /\ Continue
       ELSE /\ agent' = [agent EXCEPT
                            !.pc = "done",
                            !.quits = @ + 1,
                            !.running = IF quit_ok THEN None ELSE @]
            /\ Return(Err(<<"failed to read the agent version">>))

\* let agent_version = version_or_quit()?; if agent_version != client_version
VersionOrQuit(ok, quit_ok) ==
    /\ agent.pc = "version"
    /\ IF ok /\ IsSome(agent.running)
       THEN IF Unwrap(agent.running) = ClientVersion
            THEN /\ agent' = [agent EXCEPT
                                 !.pc = "done",
                                 !.read = Append(@, Unwrap(agent.running))]
                 /\ Return(Ok(<<>>))
            ELSE /\ agent' = [agent EXCEPT
                                 !.pc = "quit",
                                 !.read = Append(@, Unwrap(agent.running))]
                 /\ Continue
       ELSE /\ agent' = [agent EXCEPT
                            !.pc = "done",
                            !.quits = @ + 1,
                            !.running = IF quit_ok THEN None ELSE @]
            /\ Return(Err(<<"failed to read the agent version">>))

\* crate::actions::quit()? after a version that differs: then the second
\* launch, or the error of the second round
Quit(ok) ==
    /\ agent.pc = "quit"
    /\ IF ~ok
       THEN /\ agent' = [agent EXCEPT !.pc = "done", !.quits = @ + 1]
            /\ Return(Err(<<"failed to quit the agent">>))
       ELSE IF agent.round = 1
       THEN /\ agent' = [agent EXCEPT !.pc = "launch", !.round = 2,
                                      !.quits = @ + 1, !.running = None]
            /\ Continue
       ELSE /\ agent' = [agent EXCEPT !.pc = "done", !.quits = @ + 1,
                                      !.running = None]
            /\ Return(Err(<<"incompatible protocol versions: client (",
                            ClientVersion, "), agent (",
                            agent.read[Len(agent.read)], ")">>))

InitAgent ==
    /\ NoResolver
    /\ NoUri
    /\ NoInput
    /\ NoOutput
    /\ NoEffects
    /\ NoConfig
    /\ \E config_ok \in BOOLEAN, installed \in Versions,
          running \in {None} \cup {Some(v) : v \in Versions} :
          agent = [pc |-> "check_config", round |-> 1,
                   config_ok |-> config_ok, running |-> running,
                   installed |-> installed, launches |-> 0,
                   exits |-> <<>>, quits |-> 0, read |-> <<>>]

NextAgent ==
    \/ CheckConfig
    \/ \E status \in LaunchStatuses : EnsureAgentOnce(status)
    \/ \E ok \in BOOLEAN, quit_ok \in BOOLEAN : VersionOrQuit(ok, quit_ok)
    \/ \E ok \in BOOLEAN : Quit(ok)

SpecAgent == InitAgent /\ [][NextAgent]_vars

(***************************************************************************)
(* get --field on entries with custom fields                               *)
(***************************************************************************)
\* the largest number of custom fields of an entry
MaxFields == 2

\* custom fields: named and unnamed, with and without a value, one named as
\* a keyword of Login and one whose name contains a keyword of every variant
CustomFields ==
    {[name |-> Some(Cipher(<<"K", "e", "y">>)),
      value |-> Some(Cipher(<<"v1">>)), ty |-> "text"],
     [name |-> Some(Cipher(<<"k">>)), value |-> None, ty |-> "hidden"],
     [name |-> None, value |-> Some(Cipher(<<"v3">>)), ty |-> "text"],
     [name |-> Some(Cipher(<<"user">>)), value |-> Some(Cipher(<<"v4">>)),
      ty |-> "text"],
     [name |-> Some(Cipher(<<"my", "notes">>)),
      value |-> Some(Cipher(<<"v5">>)), ty |-> "text"]}

RECURSIVE FieldLists(_)
FieldLists(n) ==
    IF n = 0 THEN {<<>>}
    ELSE FieldLists(n - 1)
         \cup {Append(l, f) : l \in FieldLists(n - 1), f \in CustomFields}

FieldEntryUniverse ==
    {GetEntry([kind |-> "Login", username |-> username,
               password |-> Some(Cipher(<<"p">>)), totp |-> None,
               uris |-> <<>>],
              fields, notes) :
        username \in OptCipher({<<"u">>}), notes \in OptCipher({<<"n">>}),
        fields \in FieldLists(MaxFields)}
    \cup {GetEntry([kind |-> "Card", cardholder_name |-> None,
                    number |-> Some(Cipher(<<"c">>)),
                    brand |-> Some(Cipher(<<"b">>)), exp_month |-> None,
                    exp_year |-> None, code |-> None],
                   fields, None) :
            fields \in FieldLists(MaxFields)}
    \cup {GetEntry([kind |-> "SecureNote"], fields, notes) :
            notes \in OptCipher({<<"n">>}), fields \in FieldLists(MaxFields)}

\* the --field arguments
FieldArgs ==
    {<<>>, <<"k">>, <<"K">>, <<"e", "y">>, <<"user">>, <<"USER">>,
     <<"notes">>, <<"z">>}

InitField ==
    /\ db \in {<<e>> : e \in FieldEntryUniverse}
    /\ ciphers = <<>>
    /\ call = NoCall
    /\ result = NoResult
    /\ NoUri
    /\ NoInput
    /\ NoOutput
    /\ NoAgent
    /\ NoEffects
    /\ NoConfig

NextField ==
    \E field \in FieldArgs, clipboard \in BOOLEAN, store_ok \in BOOLEAN :
        Get(NeedleName(<<"a">>), Some(field), FALSE, FALSE, clipboard,
            store_ok, Some(45))

SpecField == InitField /\ [][NextField]_vars

(***************************************************************************)
(* add, generate, edit and remove.  A command is the list of the calls it  *)
(* makes to the agent (unlock, encrypt, decrypt, sync), the editor, the    *)
(* server (list_folders, create_folder, actions::add, actions::edit,       *)
(* actions::remove) and the disk (load_db, save_db), in program order;     *)
(* every one of them is followed by `?`, so the command makes them up to   *)
(* the first that fails and returns its error.  env names the call that    *)
(* fails in this invocation (fail), the server call that hands back a new  *)
(* access token (refreshed), what the user does in the editor (editor),    *)
(* the folder names on the server (folders) and the generated password.    *)
(***************************************************************************)
Called(name, ok, arg) == [call |-> name, ok |-> ok, arg |-> arg]

\* a call whose outcome env decides
Calls(env, name, arg) == <<Called(name, env.fail # name, arg)>>

RECURSIVE Run(_)
\* the calls made: the plan up to its first failure
Run(plan) ==
    IF plan = <<>> THEN <<>>
    ELSE IF Head(plan).ok THEN <<Head(plan)>> \o Run(Tail(plan))
    ELSE <<Head(plan)>>

\* ...? on every call: the error of the first that fails, Ok(()) if none does
Returned(plan) ==
    IF \E i \in 1..Len(plan) : ~plan[i].ok
    THEN Err(<<plan[CHOOSE i \in 1..Len(plan) :
                      ~plan[i].ok /\ \A j \in 1..(i - 1) : plan[j].ok].call>>)
    ELSE Ok(<<>>)

Outcome(plan, found, w) ==
    [effects |-> Run(plan), found |-> found, w |-> w,
     returned |-> Returned(plan)]

\* crate::actions::encrypt of an optional string
EncryptOpt(env, o) ==
    IF IsSome(o) THEN Calls(env, "encrypt", <<Unwrap(o)>>) ELSE <<>>
\* what it yields
Encrypted(o) == IF IsSome(o) THEN Some(Cipher(Unwrap(o))) ELSE None

\* if let Some(new_access_token) = ... { ...; save_db(&db)?; }
Saved(env, name) ==
    IF env.refreshed = name THEN Calls(env, "save_db", <<>>) ELSE <<>>

\* the editor banners: an empty line and comment lines
HelpLine == <<"#", " ", "x", "\n">>
HELP_PW == <<"\n">> \o HelpLine \o HelpLine \o HelpLine
HELP_NOTES == <<"\n">> \o HelpLine \o HelpLine

\* rbw::edit::edit: the file holds the contents and the banner; the user
\* leaves it as it is, empties it, or writes a password and a note
EditorReturns(env, contents, help) ==
    CASE env.editor = "unchanged" -> contents \o help
      [] env.editor = "emptied" -> <<>>
      [] OTHER -> <<"q", "\n", "\n", "m", "\n">> \o help

\* the folder lookup of add and generate: list_folders, the decryption of
\* the folder names, and create_folder when none has the name
FolderCalls(env, folder) ==
    IF ~IsSome(folder) THEN <<>>
    ELSE Calls(env, "list_folders", <<>>) \o Saved(env, "list_folders")
         \o [i \in 1..Len(env.folders) |->
                Called("decrypt", env.fail # "decrypt", <<env.folders[i]>>)]
         \o (IF \E i \in 1..Len(env.folders) :
                    env.folders[i] = Unwrap(folder)
             THEN <<>>
             ELSE Calls(env, "encrypt", <<Unwrap(folder)>>)
                  \o Calls(env, "create_folder",
                           <<Cipher(Unwrap(folder))>>)
                  \o Saved(env, "create_folder"))

\* folder_id: the last listed folder of that name, else the created one
FolderId(env, folder) ==
    IF ~IsSome(folder) THEN None
    ELSE IF \E i \in 1..Len(env.folders) : env.folders[i] = Unwrap(folder)
    THEN Some(CHOOSE i \in 1..Len(env.folders) :
                 /\ env.folders[i] = Unwrap(folder)
                 /\ \A j \in (i + 1)..Len(env.folders) :
                       env.folders[j] # Unwrap(folder))
    ELSE Some(Len(env.folders) + 1)

\* the Login that add and generate submit
NewLogin(name, username, password, notes, uris, folder_id) ==
    [name |-> Cipher(name),
     data |-> [kind |-> "Login", username |-> Encrypted(username),
               password |-> Encrypted(password),
               uris |-> [i \in 1..Len(uris) |->
                           [uri |-> Cipher(uris[i].uri),
                            match_type |-> uris[i].match_type]],
               totp |-> None],
     notes |-> Encrypted(notes), folder_id |-> folder_id]

\* the end of a command that changes the vault: the remote call, the new
\* access token saved if there is one, then the sync
Mutation(env, name, arg) ==
    Calls(env, name, <<arg>>) \o Saved(env, name) \o Calls(env, "sync", <<>>)

\* add
add(env, name, username, uris, folder) ==
    CHOOSE r \in
        {Outcome(
             Calls(env, "unlock", <<>>) \o Calls(env, "load_db", <<>>)
             \o Calls(env, "encrypt", <<name>>) \o EncryptOpt(env, username)
             \o Calls(env, "editor", <<HELP_PW>>)
             \o EncryptOpt(env, p.password) \o EncryptOpt(env, p.notes)
             \o [i \in 1..Len(uris) |->
                    Called("encrypt", env.fail # "encrypt", <<uris[i].uri>>)]
             \o FolderCalls(env, folder)
             \o Mutation(env, "actions::add",
                         NewLogin(name, username, p.password, p.notes, uris,
                                  FolderId(env, folder))),
             NoResult, <<>>) :
            p \in {parse_editor(EditorReturns(env, <<>>, HELP_PW))}} : TRUE

\* generate
generate(env, name, username, uris, folder) ==
    IF ~IsSome(name)
    THEN Outcome(<<>>, NoResult, <<Stdout(env.generated)>>)
    ELSE Outcome(
             Calls(env, "unlock", <<>>) \o Calls(env, "load_db", <<>>)
             \o Calls(env, "encrypt", <<Unwrap(name)>>)
             \o EncryptOpt(env, username)
             \o Calls(env, "encrypt", <<env.generated>>)
             \o [i \in 1..Len(uris) |->
                    Called("encrypt", env.fail # "encrypt", <<uris[i].uri>>)]
             \o FolderCalls(env, folder)
             \o Mutation(env, "actions::add",
                         NewLogin(Unwrap(name), username, Some(env.generated),
                                  None, uris, FolderId(env, folder))),
             NoResult, <<Stdout(env.generated)>>)

\* the buffer that edit hands to the editor for a Login
LoginContents(password, notes) ==
    (IF IsSome(password) THEN Unwrap(password) ELSE <<>>) \o <<"\n">>
    \o (IF IsSome(notes) THEN <<"\n">> \o Unwrap(notes) \o <<"\n">>
        ELSE <<>>)

\* the buffer that edit hands to the editor for a SecureNote
NoteContents(notes) ==
    IF IsSome(notes) THEN Unwrap(notes) \o <<"\n">> ELSE <<"\n">>

\* history with the previous password put first
WithPrevious(entry) ==
    IF IsSome(entry.data.password)
    THEN <<[last_used_date |-> "now",
            password |-> Unwrap(entry.data.password)]>> \o entry.history
    ELSE entry.history

\* the Login arm of edit
EditLogin(env, entry, decrypted) ==
    CHOOSE plan \in
        {Calls(env, "editor",
               <<LoginContents(decrypted.data.password, decrypted.notes)>>)
         \o EncryptOpt(env, p.password) \o EncryptOpt(env, p.notes)
         \o Mutation(env, "actions::edit",
                     [id |-> entry.id, name |-> entry.name,
                      data |-> [entry.data EXCEPT
                                   !.password = Encrypted(p.password)],
                      fields |-> entry.fields, notes |-> Encrypted(p.notes),
                      history |-> WithPrevious(entry)]) :
            p \in {parse_editor(
                      EditorReturns(env,
                                    LoginContents(decrypted.data.password,
                                                  decrypted.notes),
                                    HELP_PW))}} : TRUE

\* the SecureNote arm of edit
EditNote(env, entry, decrypted) ==
    CHOOSE plan \in
        {Calls(env, "editor", <<NoteContents(decrypted.notes)>>)
         \o EncryptOpt(env, p.notes)
         \o Mutation(env, "actions::edit",
                     [id |-> entry.id, name |-> entry.name,
                      data |-> entry.data, fields |-> entry.fields,
                      notes |-> Encrypted(p.notes),
                      history |-> entry.history]) :
            p \in {parse_editor(
                      <<"\n">>
                      \o EditorReturns(env, NoteContents(decrypted.notes),
                                       HELP_NOTES)
                      \o <<"\n">>)}} : TRUE

\* unlock()?; load_db()?; find_entry(..).with_context(..)?
Opened(env) == Calls(env, "unlock", <<>>) \o Calls(env, "load_db", <<>>)

\* edit
edit(env, entries, name, username, folder, ignore_case) ==
    IF env.fail \in {"unlock", "load_db"}
    THEN Outcome(Opened(env), NoResult, <<>>)
    ELSE CHOOSE r \in
            {IF found.kind # "Ok"
             THEN [effects |-> Opened(env), found |-> found, w |-> <<>>,
                   returned |-> CouldntFind(NeedleName(name), username)]
             ELSE IF Unwrap(found.hit).decrypted.data.kind = "Login"
             THEN Outcome(Opened(env)
                          \o EditLogin(env, Unwrap(found.hit).entry,
                                       Unwrap(found.hit).decrypted),
                          found, <<>>)
             ELSE IF Unwrap(found.hit).decrypted.data.kind = "SecureNote"
             THEN Outcome(Opened(env)
                          \o EditNote(env, Unwrap(found.hit).entry,
                                      Unwrap(found.hit).decrypted),
                          found, <<>>)
             ELSE [effects |-> Opened(env), found |-> found, w |-> <<>>,
                   returned |->
                       Err(<<"modifications are only supported for login and note entries">>)] :
                found \in {find_entry(entries, NeedleName(name), username,
                                      folder, ignore_case)}} : TRUE

\* remove
remove(env, entries, name, username, folder, ignore_case) ==
    IF env.fail \in {"unlock", "load_db"}
    THEN Outcome(Opened(env), NoResult, <<>>)
    ELSE CHOOSE r \in
            {IF found.kind # "Ok"
             THEN [effects |-> Opened(env), found |-> found, w |-> <<>>,
                   returned |-> CouldntFind(NeedleName(name), username)]
             ELSE Outcome(Opened(env)
                          \o Mutation(env, "actions::remove",
                                      Unwrap(found.hit).entry.id),
                          found, <<>>) :
                found \in {find_entry(entries, NeedleName(name), username,
                                      folder, ignore_case)}} : TRUE

\* what the commands are asked to add, and what the server and the user do
UriArgs == <<[uri |-> HttpsOne, match_type |-> None]>>
FailSites(op) ==
    {"none", "unlock", "load_db", "encrypt", "save_db", "sync"}
    \cup CASE op \in {"add", "generate"} ->
                {"list_folders", "decrypt", "create_folder", "actions::add"}
                \cup (IF op = "add" THEN {"editor"} ELSE {})
            [] op = "edit" -> {"editor", "actions::edit"}
            [] OTHER -> {"actions::remove"}
Refreshes(op) ==
    {"none"}
    \cup CASE op \in {"add", "generate"} ->
                {"list_folders", "create_folder", "actions::add"}
            [] op = "edit" -> {"actions::edit"}
            [] OTHER -> {"actions::remove"}
Environments(op) ==
    [fail : FailSites(op), refreshed : Refreshes(op),
     editor : IF op = "edit" THEN {"unchanged", "emptied", "written"}
              ELSE IF op = "add" THEN {"unchanged", "written"}
              ELSE {"unchanged"},
     folders : IF op \in {"add", "generate"}
               THEN {<<>>, <<<<"g">>, <<"f">>, <<"f">>>>}
               ELSE {<<>>},
     generated : {<<"r">>}]

\* the entries that edit and remove find: Logins and SecureNotes with and
\* without a password and notes, notes of several lines, and a Card
MutateEntryUniverse ==
    {GetEntry([kind |-> "Login", username |-> None, password |-> password,
               totp |-> None, uris |-> <<>>], <<>>, notes) :
        password \in OptCipher({<<"p">>}),
        notes \in OptCipher({<<"n">>, <<"n", "\n", "\n", "m">>,
                             <<"n", "\n", "#", "c">>})}
    \cup {GetEntry([kind |-> "SecureNote"], <<>>, notes) :
            notes \in OptCipher({<<"n">>, <<"#", "c">>})}
    \cup {GetEntry([kind |-> "Card", cardholder_name |-> None,
                    number |-> None, brand |-> None, exp_month |-> None,
                    exp_year |-> None, code |-> None], <<>>, None)}

MutateDatabases ==
    {<<>>} \cup {<<e>> : e \in MutateEntryUniverse}
    \cup {<<e, e>> : e \in {GetEntry([kind |-> "SecureNote"], <<>>, None)}}

\* what a command that changes the vault did
Changed(r) ==
    /\ result' = r.found
    /\ effects' = r.effects
    /\ stdout' = Sink(r.w, "stdout")
    /\ returned' = Some(r.returned)
    /\ UNCHANGED <<db, ciphers, stored, query, matched, input, parsed>>
    /\ UNCHANGED <<stderr, clip, agent, config>>

\* rbw add
Add(env, username, uris, folder) ==
    /\ call.op = "none"
    /\ call' = [op |-> "add", env |-> env, name |-> Some(<<"a">>),
                username |-> username, uris |-> uris, folder |-> folder]
    /\ Changed(add(env, <<"a">>, username, uris, folder))

\* rbw generate
GeneratePassword(env, name, username, uris, folder) ==
    /\ call.op = "none"
    /\ call' = [op |-> "generate", env |-> env, name |-> name,
                username |-> username, uris |-> uris, folder |-> folder]
    /\ Changed(generate(env, name, username, uris, folder))

\* rbw edit
Edit(env) ==
    /\ call.op = "none"
    /\ call' = [op |-> "edit", env |-> env, name |-> Some(<<"a">>),
                username |-> None, uris |-> <<>>, folder |-> None]
    /\ Changed(edit(env, db, <<"a">>, None, None, FALSE))

\* rbw remove
Remove(env) ==
    /\ call.op = "none"
    /\ call' = [op |-> "remove", env |-> env, name |-> Some(<<"a">>),
                username |-> None, uris |-> <<>>, folder |-> None]
    /\ Changed(remove(env, db, <<"a">>, None, None, FALSE))

InitMutate ==
    /\ db \in MutateDatabases
    /\ ciphers = <<>>
    /\ call = NoCall
    /\ result = NoResult
    /\ NoUri
    /\ NoInput
    /\ NoOutput
    /\ NoAgent
    /\ NoEffects
    /\ NoConfig

NextMutate ==
    \/ \E env \in Environments("add"), username \in {None, Some(<<"u">>)},
          folder \in FolderArgs :
            Add(env, username, UriArgs, folder)
    \/ \E env \in Environments("generate"), name \in {None, Some(<<"a">>)},
          folder \in FolderArgs :
            GeneratePassword(env, name, None, <<>>, folder)
    \/ \E env \in Environments("edit") : Edit(env)
    \/ \E env \in Environments("remove") : Remove(env)

SpecMutate == InitMutate /\ [][NextMutate]_vars

(***************************************************************************)
(* The resolver on Logins with URIs that cannot be decrypted               *)
(***************************************************************************)
\* stored URIs: one that matches the queries, the same one unreadable, and
\* one that matches no query
StoredUris ==
    {[uri |-> Cipher(HttpsOne), match_type |-> None],
     [uri |-> Broken(HttpsOne), match_type |-> None],
     [uri |-> Cipher(<<"two", ".", "com">>), match_type |-> Some("Host")]}

\* the Login a database of this model may hold at position i
BrokenUrisEntryUniverse(i) ==
    {[LoginEntry(uuid_to_string(IdValue(i)), Cipher(<<"a">>), None, None,
                 <<>>) EXCEPT !.data.uris = uris] :
        uris \in {<<>>} \cup {<<u>> : u \in StoredUris}
                 \cup {<<u, v>> : u \in StoredUris, v \in StoredUris}}

RECURSIVE BrokenUrisDatabasesOfLen(_)
BrokenUrisDatabasesOfLen(n) ==
    IF n = 0 THEN {<<>>}
    ELSE {Append(d, e) : d \in BrokenUrisDatabasesOfLen(n - 1),
                         e \in BrokenUrisEntryUniverse(n)}

InitBrokenUris ==
    /\ db \in UNION {BrokenUrisDatabasesOfLen(n) : n \in 0..MaxEntries}
    /\ ciphers = <<>>
    /\ call = NoCall
    /\ result = NoResult
    /\ NoUri
    /\ NoInput
    /\ NoOutput
    /\ NoAgent
    /\ NoEffects
    /\ NoConfig

NextBrokenUris ==
    \E needle \in UriNeedles, ignore_case \in BOOLEAN :
        FindEntry(needle, None, None, ignore_case)

SpecBrokenUris == InitBrokenUris /\ [][NextBrokenUris]_vars

(***************************************************************************)
(* rbw config set and rbw config unset.  The file holds the optional       *)
(* settings as Options, the timeouts as numbers and the pinentry as a      *)
(* String; a key is a String of one symbol.                                *)
(***************************************************************************)
default_lock_timeout == 3600
default_sync_interval == 3600
default_pinentry == <<"pinentry">>
\* rbw::config::Config::new()
NewConfig ==
    [email |-> None, sso_id |-> None, base_url |-> None,
     identity_url |-> None, ui_url |-> None, notifications_url |-> None,
     client_cert_path |-> None, lock_timeout |-> default_lock_timeout,
     sync_interval |-> default_sync_interval, pinentry |-> default_pinentry]

\* Config::load().unwrap_or_else(|_| Config::new())
Loaded(file) == IF IsSome(file) THEN Unwrap(file) ELSE NewConfig

\* value.parse() of a u64
ParseU64(value, key) ==
    IF Len(value) = 1 /\ value[1] \in IntWords THEN Ok(IntValue(value[1]))
    ELSE Err(<<"failed to parse value for ", key>>)

\* config.save()?; stop_agent()?; Ok(())
Stored(env, file, log, new) ==
    [effects |-> log \o Run(Calls(env, "save", <<new>>)
                            \o Calls(env, "stop_agent", <<>>)),
     config |-> IF env.fail = "save" THEN file ELSE Some(new),
     returned |-> Returned(Calls(env, "save", <<new>>)
                           \o Calls(env, "stop_agent", <<>>))]
\* return Err(..) out of the match
Rejected(file, e) == [effects |-> <<>>, config |-> file, returned |-> Err(e)]

config_set(env, file, key, value) ==
    CASE key = <<"email">> ->
            Stored(env, file, <<>>,
                   [Loaded(file) EXCEPT !.email = Some(value)])
      [] key = <<"sso_id">> ->
            Stored(env, file, <<>>,
                   [Loaded(file) EXCEPT !.sso_id = Some(value)])
      [] key = <<"base_url">> ->
            Stored(env, file, <<>>,
                   [Loaded(file) EXCEPT !.base_url = Some(value)])
      [] key = <<"identity_url">> ->
            Stored(env, file, <<>>,
                   [Loaded(file) EXCEPT !.identity_url = Some(value)])
      [] key = <<"ui_url">> ->
            Stored(env, file, <<>>,
                   [Loaded(file) EXCEPT !.ui_url = Some(value)])
      [] key = <<"notifications_url">> ->
            Stored(env, file, <<>>,
                   [Loaded(file) EXCEPT !.notifications_url = Some(value)])
      [] key = <<"client_cert_path">> ->
            Stored(env, file, <<>>,
                   [Loaded(file) EXCEPT !.client_cert_path = Some(value)])
      [] key = <<"lock_timeout">> ->
            IF ~ParseU64(value, "lock_timeout").ok
            THEN Rejected(file, ParseU64(value, "lock_timeout").err)
            ELSE IF ParseU64(value, "lock_timeout").val = 0
            THEN Stored(env, file,
                        <<Called("log::error", TRUE,
                                 <<"lock_timeout must be greater than 0">>)>>,
                        Loaded(file))
            ELSE Stored(env, file, <<>>,
                        [Loaded(file) EXCEPT !.lock_timeout =
                            ParseU64(value, "lock_timeout").val])
      [] key = <<"sync_interval">> ->
            IF ~ParseU64(value, "sync_interval").ok
            THEN Rejected(file, ParseU64(value, "sync_interval").err)
            ELSE Stored(env, file, <<>>,
                        [Loaded(file) EXCEPT !.sync_interval =
                            ParseU64(value, "sync_interval").val])
      [] key = <<"pinentry">> ->
            Stored(env, file, <<>>, [Loaded(file) EXCEPT !.pinentry = value])
      [] OTHER -> Rejected(file, <<"invalid config key: ">> \o key)

config_unset(env, file, key) ==
    CASE key = <<"email">> ->
            Stored(env, file, <<>>, [Loaded(file) EXCEPT !.email = None])
      [] key = <<"sso_id">> ->
            Stored(env, file, <<>>, [Loaded(file) EXCEPT !.sso_id = None])
      [] key = <<"base_url">> ->
            Stored(env, file, <<>>, [Loaded(file) EXCEPT !.base_url = None])
      [] key = <<"identity_url">> ->
            Stored(env, file, <<>>,
                   [Loaded(file) EXCEPT !.identity_url = None])
      [] key = <<"ui_url">> ->
            Stored(env, file, <<>>, [Loaded(file) EXCEPT !.ui_url = None])
      [] key = <<"notifications_url">> ->
            Stored(env, file, <<>>,
                   [Loaded(file) EXCEPT !.notifications_url = None])
      [] key = <<"client_cert_path">> ->
            Stored(env, file, <<>>,
                   [Loaded(file) EXCEPT !.client_cert_path = None])
      [] key = <<"lock_timeout">> ->
            Stored(env, file, <<>>,
                   [Loaded(file) EXCEPT
                       !.lock_timeout = default_lock_timeout])
      [] key = <<"pinentry">> ->
            Stored(env, file, <<>>,
                   [Loaded(file) EXCEPT !.pinentry = default_pinentry])
      [] OTHER -> Rejected(file, <<"invalid config key: ">> \o key)

\* the keys of the command line: the settings of the file and two that are
\* none
ConfigKeys ==
    {<<"email">>, <<"sso_id">>, <<"base_url">>, <<"identity_url">>,
     <<"ui_url">>, <<"notifications_url">>, <<"client_cert_path">>,
     <<"lock_timeout">>, <<"sync_interval">>, <<"pinentry">>,
     <<"editor">>, <<>>}
ConfigValues == {<<>>, <<"x">>, <<"0">>, <<"60">>}
ConfigEnvironments == [fail : {"none", "save", "stop_agent"}]
\* no file, the file of a new installation, and one with every setting made
ConfigFiles ==
    {None, Some(NewConfig),
     Some([email |-> Some(<<"e">>), sso_id |-> Some(<<"s">>),
           base_url |-> Some(<<"b">>), identity_url |-> Some(<<"i">>),
           ui_url |-> Some(<<"w">>), notifications_url |-> Some(<<"n">>),
           client_cert_path |-> Some(<<"c">>), lock_timeout |-> 60,
           sync_interval |-> 60, pinentry |-> <<"q">>])}

\* what a command that changes the configuration did
Reconfigured(r) ==
    /\ effects' = r.effects
    /\ config' = r.config
    /\ returned' = Some(r.returned)
    /\ UNCHANGED <<db, ciphers, result, stored, query, matched, input>>
    /\ UNCHANGED <<parsed, stdout, stderr, clip, agent>>

\* rbw config set
ConfigSet(env, key, value) ==
    /\ call.op = "none"
    /\ call' = [op |-> "config_set", env |-> env, key |-> key,
                value |-> value, file |-> config]
    /\ Reconfigured(config_set(env, config, key, value))

\* rbw config unset
ConfigUnset(env, key) ==
    /\ call.op = "none"
    /\ call' = [op |-> "config_unset", env |-> env, key |-> key,
                value |-> <<>>, file |-> config]
    /\ Reconfigured(config_unset(env, config, key))

InitConfig ==
    /\ NoResolver
    /\ NoUri
    /\ NoInput
    /\ NoOutput
    /\ NoAgent
    /\ NoEffects
    /\ config \in ConfigFiles

NextConfig ==
    \/ \E env \in ConfigEnvironments, key \in ConfigKeys,
          value \in ConfigValues :
            ConfigSet(env, key, value)
    \/ \E env \in ConfigEnvironments, key \in ConfigKeys :
            ConfigUnset(env, key)

SpecConfig == InitConfig /\ [][NextConfig]_vars

(***************************************************************************)
(* Needle parsing                                                          *)
(***************************************************************************)
\* command line arguments: names, bare words and hosts, URLs of special and
\* other schemes, and UUIDs in every form
InputStrings ==
    Names
    \cup {<<"https">>, <<"com">>, <<"one", ".", "com">>,
          <<"one", ".", "com", ":", "8080">>,
          <<"mailto", ":", "x">>, <<"x", ":", "//", "one", ".", "com">>,
          <<"https", ":", "//">>, <<"https", ":", "one", ".", "com">>,
          <<"HTTPS", ":", "//", "ONE", ".", "COM", ":", "443">>,
          <<"https", ":", "//", "one", ".", "com", ":", "x">>}
    \cup {UrlString(s, h, p, <<"/">>) :
            s \in {"https", "http", "ftp", "ws", "wss", "mailto", "x"},
            h \in {<<"one", ".", "com">>, <<"10.0.0.1">>}, p \in Ports}
    \cup UNION {{uuid_to_string(u), to_uppercase(uuid_to_string(u)), u,
                 to_uppercase(u), UrnPrefix \o uuid_to_string(u),
                 <<"{">> \o uuid_to_string(u) \o <<"}">>,
                 SubSeq(uuid_to_string(u), 1, 3),
                 <<u[1], "-">> \o Tail(u)} : u \in {U1, U2}}

ParseNeedle ==
    /\ parsed = None
    /\ parsed' = Some(parse_needle(input))
    /\ UNCHANGED <<db, ciphers, call, result, stored, query, matched, input>>
    /\ UNCHANGED <<output, agent, effects, config>>

InitNeedle ==
    /\ NoResolver
    /\ NoUri
    /\ input \in InputStrings
    /\ parsed = None
    /\ NoOutput
    /\ NoAgent
    /\ NoEffects
    /\ NoConfig

NextNeedle == ParseNeedle

SpecNeedle == InitNeedle /\ [][NextNeedle]_vars

(***************************************************************************)
(* Properties of find_entry_raw (checked under Spec)                       *)
(***************************************************************************)
\* the decrypted entries the call was given
Pairs == ciphers
RawCalled == call.op = "find_entry_raw"

\* the indexes of the entries that satisfy the predicate of pass k: 1 exact
\* with the folder, 2 exact without, 3 partial with the folder, 4 partial
\* without
PassMatches(k, folder, ignore_case) ==
    {i \in 1..Len(Pairs) :
        CASE k = 1 -> exact_match(Pairs[i].decrypted, call.needle,
                                  call.username, folder, TRUE, ignore_case)
          [] k = 2 -> exact_match(Pairs[i].decrypted, call.needle,
                                  call.username, folder, FALSE, ignore_case)
          [] k = 3 -> partial_match(Pairs[i].decrypted, call.needle.name,
                                    call.username, folder, TRUE, ignore_case)
          [] OTHER -> partial_match(Pairs[i].decrypted, call.needle.name,
                                    call.username, folder, FALSE, ignore_case)}

\* pass k is one of the passes that are run for this needle and folder
Attempted(k, folder) ==
    CASE k = 1 -> TRUE
      [] k = 2 -> ~IsSome(folder)
      [] k = 3 -> call.needle.kind = "Name"
      [] OTHER -> call.needle.kind = "Name" /\ ~IsSome(folder)

Hits(k) == PassMatches(k, call.folder, call.ignore_case)

\* pass k is run: no pass before it has returned
Tried(k) ==
    /\ Attempted(k, call.folder)
    /\ \A j \in 1..(k - 1) :
          Attempted(j, call.folder) => Cardinality(Hits(j)) # 1

LastTried == CHOOSE k \in 1..4 : Tried(k) /\ \A j \in (k + 1)..4 : ~Tried(j)
LastAttempted ==
    CHOOSE k \in 1..4 :
        /\ Attempted(k, call.folder)
        /\ \A j \in (k + 1)..4 : ~Attempted(j, call.folder)

ReturnsHitOf(k) == result.kind = "Ok" /\ Hits(k) = {result.idx}

\* the indexes of a set in entry order
InEntryOrder(set) ==
    LET keep(i) == i \in set
    IN  SelectSeq(Indexes(Pairs), keep)

\* C1: the passes are tried in the order 1, 2, 3, 4 and the single hit of
\* the first pass that is run and has exactly one hit is returned, whatever
\* the later passes would match
C1_FirstSingleHitReturned ==
    RawCalled =>
        \A k \in 1..4 :
            (Tried(k) /\ Cardinality(Hits(k)) = 1) => ReturnsHitOf(k)

\* C1 witness: a pass returns its single hit although a later pass of the
\* same call matches several entries
C1_Witness ==
    /\ RawCalled
    /\ \E k \in 1..3 :
          /\ Tried(k) /\ Cardinality(Hits(k)) = 1 /\ ReturnsHitOf(k)
          /\ \E j \in (k + 1)..4 :
                Attempted(j, call.folder) /\ Cardinality(Hits(j)) >= 2

\* C2: when an exact pass (1 or 2) of the call has exactly one hit, that
\* entry is returned, however many entries match partially
C2_UniqueExactWins ==
    RawCalled =>
        \A k \in 1..2 :
            (Attempted(k, call.folder) /\ Cardinality(Hits(k)) = 1)
                => ReturnsHitOf(k)

\* C2 witness: the second pass alone has a single hit, it is returned, and
\* the partial passes match more entries
C2_Witness ==
    /\ RawCalled
    /\ call.needle.kind = "Name"
    /\ ~IsSome(call.folder)
    /\ Cardinality(Hits(1)) = 0
    /\ Cardinality(Hits(2)) = 1
    /\ Cardinality(Hits(4)) >= 2
    /\ ReturnsHitOf(2)

\* C3 as claimed: whenever a folder-qualified pass (1 or 3) has exactly one
\* hit, that hit is returned
C3_Original ==
    RawCalled =>
        \A k \in {1, 3} :
            (Attempted(k, call.folder) /\ Cardinality(Hits(k)) = 1)
                => ReturnsHitOf(k)

\* C3 amended: the single hit of pass 1 is always returned; the single hit
\* of pass 3 is returned when no exact pass of the call has exactly one hit
C3_QualifiedWinsWithinKind ==
    RawCalled =>
        /\ Cardinality(Hits(1)) = 1 => ReturnsHitOf(1)
        /\ ( /\ Attempted(3, call.folder)
             /\ Cardinality(Hits(3)) = 1
             /\ \A k \in 1..2 :
                   Attempted(k, call.folder) => Cardinality(Hits(k)) # 1 )
           => ReturnsHitOf(3)

\* C3 witness: pass 3 returns its single hit although pass 4 would match
\* several entries
C3_Witness ==
    /\ RawCalled
    /\ Attempted(4, call.folder)
    /\ Cardinality(Hits(1)) # 1 /\ Cardinality(Hits(2)) # 1
    /\ Cardinality(Hits(3)) = 1
    /\ Cardinality(Hits(4)) >= 2
    /\ ReturnsHitOf(3)

\* the same call with ignore_case set
IgnoringCase ==
    find_entry_raw(Pairs, call.needle, call.username, call.folder, TRUE)

C5_FolderNarrows ==
    (RawCalled /\ IsSome(call.folder)) =>
        \A k \in 1..4 :
            Attempted(k, call.folder) =>
                \A i \in PassMatches(k, call.folder, call.ignore_case) :
                    \E j \in 1..4 :
                        /\ Attempted(j, None)
                        /\ i \in PassMatches(j, None, call.ignore_case)

\* C5 witness: a call with a folder returns an entry of that folder
C5_Witness ==
    /\ RawCalled /\ IsSome(call.folder)
    /\ result.kind = "Ok"
    /\ IsSome(Pairs[result.idx].decrypted.folder)

\* "<username>@<name>" for a Login with a username, "<name>" otherwise
DisplayNameOf(c) ==
    IF c.data.kind = "Login" /\ c.data.username # None
    THEN c.data.username[1] \o <<"@">> \o c.name
    ELSE c.name

\* C6: with h the matches of the last pass that was run: no match gives
\* NotFound, two or more give Ambiguous with their display names in entry
\* order, and an entry is returned only when h has exactly one element
C6_NotFoundOrAmbiguous ==
    RawCalled =>
        LET h == Hits(LastTried)
            order == InEntryOrder(h)
        IN  /\ Cardinality(h) = 0 => result = NotFound
            /\ Cardinality(h) >= 2 =>
                  /\ result.kind = "Ambiguous"
                  /\ result.payload =
                        join([n \in 1..Len(order) |->
                                DisplayNameOf(Pairs[order[n]].decrypted)],
                             <<", ">>)
            /\ result.kind = "Ok" => Cardinality(h) = 1

\* C6 witness: an ambiguity between a Login with a username and an entry
\* without one
C6_Witness ==
    /\ RawCalled
    /\ result.kind = "Ambiguous"
    /\ \E i, j \in Hits(LastTried) :
          /\ i < j
          /\ IsLoginWithUsername(Pairs[i].decrypted)
          /\ ~IsLoginWithUsername(Pairs[j].decrypted)

(***************************************************************************)
(* Properties of find_entry with a Uuid needle (checked under SpecFind)    *)
(***************************************************************************)
UuidCalled == call.op = "find_entry" /\ call.needle.kind = "Uuid"

\* the entries whose id parses to the UUID of the needle
SameUuid == {i \in 1..Len(db) : uuid_parse_str(db[i].id) = Some(call.needle.uuid)}
FirstSameUuid == {i \in SameUuid : \A j \in SameUuid : i <= j}

\* C7 as claimed: the first entry whose id parses to the needle's UUID is
\* returned, and NotFound exactly when there is none
C7_Original ==
    UuidCalled =>
        /\ \A i \in FirstSameUuid : result.kind = "Ok" /\ result.idx = i
        /\ result = NotFound <=> SameUuid = {}

\* C7 amended: the first entry whose id parses to the needle's UUID is
\* returned with its decryption, or the decryption error when its name
\* cannot be decrypted; NotFound exactly when there is none; and the result
\* is the one the database of that entry alone gives
C7_FirstSameUuidOrDecryptError ==
    UuidCalled =>
        /\ result = NotFound <=> SameUuid = {}
        /\ \A i \in FirstSameUuid :
              /\ db[i].name.ok =>
                    /\ result.kind = "Ok" /\ result.idx = i
                    /\ Unwrap(result.hit).entry = db[i]
                    /\ Unwrap(result.hit).decrypted.name = db[i].name.plain
              /\ ~db[i].name.ok => result = DecryptError
              /\ [result EXCEPT !.idx = 0]
                    = [find_entry(<<db[i]>>, call.needle, call.username,
                                  call.folder, call.ignore_case)
                         EXCEPT !.idx = 0]

\* C7 witness: the entry found is not the first of the database, its id is
\* not spelled like the canonical form of the needle, and the name of an
\* entry before it cannot be decrypted
C7_Witness ==
    /\ UuidCalled
    /\ result.kind = "Ok"
    /\ result.idx >= 2
    /\ db[result.idx].id # uuid_to_string(call.needle.uuid)
    /\ \E j \in 1..(result.idx - 1) : ~db[j].name.ok

(***************************************************************************)
(* Properties of parse_needle (checked under SpecNeedle)                   *)
(***************************************************************************)
\* C8: parse_needle always returns a needle: Uuid when the argument parses
\* as a UUID, also when it parses as a URL; else Uri when it parses as a URL
\* with scheme http, https, ftp, ws, wss or file; else Name with the
\* argument unchanged
C8_NeedlePrecedence ==
    IsSome(parsed) =>
        LET n == Unwrap(parsed)
            uuid == uuid_parse_str(input)
            url == url_parse(input)
            special ==
                /\ url # None
                /\ url[1].scheme \in {<<"http">>, <<"https">>, <<"ftp">>,
                                      <<"ws">>, <<"wss">>, <<"file">>}
        IN  /\ n.kind \in {"Uuid", "Uri", "Name"}
            /\ uuid # None => n = [kind |-> "Uuid", uuid |-> uuid[1]]
            /\ (uuid = None /\ special) => n = [kind |-> "Uri", url |-> url[1]]
            /\ (uuid = None /\ ~special) => n = [kind |-> "Name", name |-> input]
            /\ input \in {<<"one", ".", "com">>, <<"https">>, <<"com">>}
                  => n.kind = "Name"

\* C8 witness: an argument that parses as a URL and as a UUID is a Uuid
C8_Witness ==
    /\ IsSome(parsed)
    /\ Unwrap(parsed).kind = "Uuid"
    /\ IsSome(url_parse(input))

(***************************************************************************)
(* Properties of matches_url, Domain match type (checked under SpecUri)    *)
(***************************************************************************)
DomainCalled ==
    /\ IsSome(matched)
    /\ stored.match_type \in {None, Some("Domain")}

\* host[:port] of a parsed URL with a host
HostWithPort(url) ==
    url.host[1] \o (IF url.port = None THEN <<>> ELSE <<":", url.port[1]>>)

\* s equals t or ends with "." + t
SameOrSubdomain(s, t) == s = t \/ ends_with(s, <<".">> \o t)

StoredUrl == url_parse(stored.uri)
StoredHasHost == StoredUrl # None /\ StoredUrl[1].host # None

\* C9: a Domain URI matches exactly when the query has a domain and either
\* the stored URI is a URL of the same scheme whose host[:port] is the
\* query's or a dot-suffix of it, or the stored string itself is; the path
\* is ignored, the explicit ports agree, and a parent domain of the stored
\* host does not match
C9_DomainMatch ==
    DomainCalled =>
        LET q == HostWithPort(query)
        IN  /\ Unwrap(matched) <=>
                  /\ query.kind = "Domain"
                  /\ \/ /\ StoredHasHost
                        /\ StoredUrl[1].scheme = query.scheme
                        /\ SameOrSubdomain(q, HostWithPort(StoredUrl[1]))
                     \/ SameOrSubdomain(q, stored.uri)
            /\ \A path \in Paths :
                  matches_url(stored, [query EXCEPT !.path = path])
                      = Unwrap(matched)
            /\ (Unwrap(matched) /\ StoredHasHost) =>
                  StoredUrl[1].port = query.port
            /\ ( /\ StoredHasHost
                 /\ ends_with(StoredUrl[1].host[1], <<".">> \o query.host[1]) )
               => ~Unwrap(matched)
            /\ ends_with(stored.uri, <<".">> \o q) => ~Unwrap(matched)

\* C9 witness: a stored URL with an explicit port matches a query for a
\* subdomain with the same port and another path
C9_Witness ==
    /\ DomainCalled
    /\ Unwrap(matched)
    /\ StoredHasHost
    /\ StoredUrl[1].port = Some("8080")
    /\ StoredUrl[1].host # query.host
    /\ StoredUrl[1].path # query.path

\* C10 as claimed: the domain of a URL is its registrable domain, and a
\* stored URL and a query of the same scheme and port match exactly when
\* their registrable domains are equal
C10_Original ==
    ( /\ DomainCalled
      /\ query.kind = "Domain"
      /\ StoredHasHost
      /\ StoredUrl[1].kind = "Domain"
      /\ StoredUrl[1].scheme = query.scheme
      /\ StoredUrl[1].port = query.port )
    => /\ domain_port(query)
            = Some(WithPort(RegistrableDomain(query.host[1]), query.port))
       /\ Unwrap(matched) <=>
            RegistrableDomain(StoredUrl[1].host[1])
                = RegistrableDomain(query.host[1])

\* C10 amended: the domain of a URL is its whole host name (absent for an
\* IP address); a stored URL matches only a query whose host is the stored
\* host or a subdomain of it, so two hosts with the same registrable domain
\* need not match
C10_DomainIsFullHost ==
    DomainCalled =>
        /\ domain_port(query) =
              IF query.kind = "Domain" THEN Some(HostWithPort(query))
              ELSE None
        /\ query.kind # "Domain" => ~Unwrap(matched)
        /\ (Unwrap(matched) /\ StoredHasHost) =>
              SameOrSubdomain(query.host[1], StoredUrl[1].host[1])

\* C10 witness: stored URL and query have the same scheme, port and
\* registrable domain, the query is for the parent of the stored host, and
\* there is no match
C10_Witness ==
    /\ DomainCalled
    /\ ~Unwrap(matched)
    /\ StoredHasHost
    /\ query.kind = "Domain"
    /\ StoredUrl[1].scheme = query.scheme
    /\ StoredUrl[1].port = query.port
    /\ StoredUrl[1].host # query.host
    /\ RegistrableDomain(StoredUrl[1].host[1])
          = RegistrableDomain(query.host[1])

(***************************************************************************)
(* Properties of matches_url, Host match type (checked under SpecUri)      *)
(***************************************************************************)
HostCalled == IsSome(matched) /\ stored.match_type = Some("Host")

\* C11: a Host URI matches exactly when the stored URI is a URL of the
\* same scheme and host[:port] as the query, or the stored string is the
\* query's host[:port]; a subdomain does not match, the path is ignored, a
\* query with the default port spelled out matches a stored URI without a
\* port, and a differing explicit port does not match
C11_HostMatch ==
    HostCalled =>
        LET q == HostWithPort(query)
        IN  /\ Unwrap(matched) <=>
                  \/ /\ StoredHasHost
                     /\ StoredUrl[1].scheme = query.scheme
                     /\ HostWithPort(StoredUrl[1]) = q
                  \/ stored.uri = q
            /\ (Unwrap(matched) /\ StoredHasHost) =>
                  /\ StoredUrl[1].host = query.host
                  /\ StoredUrl[1].port = query.port
            /\ ( /\ StoredHasHost
                 /\ ends_with(query.host[1], <<".">> \o StoredUrl[1].host[1]) )
               => ~Unwrap(matched)
            /\ \A path \in Paths :
                  matches_url(stored, [query EXCEPT !.path = path])
                      = Unwrap(matched)
            /\ \A path \in Paths \cup {<<>>} :
                  ( /\ query = Unwrap(url_parse(UrlString("https", query.host[1],
                                                          Some("443"), query.path)))
                    /\ stored.uri \in {UrlString("https", query.host[1], None, path),
                                       query.host[1]} )
                  => Unwrap(matched)

\* C11 witness: a stored URL with an explicit port matches a query for the
\* same host and port with another path
C11_Witness ==
    /\ HostCalled
    /\ Unwrap(matched)
    /\ StoredHasHost
    /\ query.port = Some("8080")
    /\ StoredUrl[1].path # query.path

(***************************************************************************)
(* Properties of the resolver on Logins with several URIs (checked under   *)
(* SpecUris)                                                               *)
(***************************************************************************)
UrisOf(i) == Unwrap(ciphers[i].decrypted.data.uris)

\* a URI that cannot match: match type Never, or a regular expression that
\* does not compile
CannotMatch(u) ==
    \/ u.match_type = Some("Never")
    \/ u.match_type = Some("RegularExpression") /\ regex_new(u.uri) = None

\* the entries with a URI that can match and matches the needle
UriHits ==
    {i \in 1..Len(ciphers) :
        \E k \in 1..Len(UrisOf(i)) :
            /\ ~CannotMatch(UrisOf(i)[k])
            /\ matches_url(UrisOf(i)[k], call.needle.url)}

\* C12: a Never URI and a regular expression that does not compile match
\* no query, a stored URI that is no URL gives a match result like any
\* other, and the resolver ends in the hit, NotFound or Ambiguous that the
\* other URIs and entries decide
C12_UriMatchingNeverFails ==
    (RawCalled /\ call.needle.kind = "Uri") =>
        /\ \A i \in 1..Len(ciphers) : \A k \in 1..Len(UrisOf(i)) :
              /\ matches_url(UrisOf(i)[k], call.needle.url) \in BOOLEAN
              /\ CannotMatch(UrisOf(i)[k])
                    => ~matches_url(UrisOf(i)[k], call.needle.url)
        /\ result.kind \in {"Ok", "NotFound", "Ambiguous"}
        /\ UriHits = {} <=> result = NotFound
        /\ \A i \in 1..Len(ciphers) :
              UriHits = {i} <=> (result.kind = "Ok" /\ result.idx = i)
        /\ Cardinality(UriHits) >= 2 <=> result.kind = "Ambiguous"

\* C12 witness: the entry found is the second one, through its second URI,
\* after a first URI that is no URL or cannot match, and after an entry
\* whose only URI cannot match
C12_Witness ==
    /\ RawCalled
    /\ result.kind = "Ok"
    /\ result.idx = 2
    /\ Len(UrisOf(2)) = 2
    /\ UrisOf(2)[1] \in UnmatchedUris
    /\ Len(UrisOf(1)) = 1
    /\ CannotMatch(UrisOf(1)[1])

(***************************************************************************)
(* Properties of decrypt_cipher (checked under SpecDecrypt)                *)
(***************************************************************************)
DecryptCalled == call.op = "decrypt_cipher"

\* what a field shows after decryption: absent when it is absent or cannot
\* be decrypted
PlainOrAbsent(field) ==
    IF field # None /\ field[1].ok THEN <<field[1].plain>> ELSE <<>>

\* a custom field name or value, or a history password, of the entry that
\* cannot be decrypted
BrokenFieldOrHistory ==
    \/ \E i \in 1..Len(db[1].fields) :
          \/ db[1].fields[i].name # None /\ ~db[1].fields[i].name[1].ok
          \/ db[1].fields[i].value # None /\ ~db[1].fields[i].value[1].ok
    \/ \E i \in 1..Len(db[1].history) : ~db[1].history[i].password.ok

\* C13 as claimed: decrypt_cipher returns an error exactly when the entry
\* name cannot be decrypted
C13_Original ==
    DecryptCalled => (result = DecryptError <=> ~db[1].name.ok)

\* C13 amended: decrypt_cipher returns an error exactly when the name, a
\* custom field name or value, or a history password cannot be decrypted;
\* otherwise it succeeds, folder, notes and every variant data field that
\* cannot be decrypted are absent, and the URI list is absent when one of
\* its URIs cannot be decrypted
C13_DecryptFailures ==
    DecryptCalled =>
        /\ result = DecryptError <=> (~db[1].name.ok \/ BrokenFieldOrHistory)
        /\ result # DecryptError =>
              LET e == db[1]
                  d == Unwrap(result.hit).decrypted
              IN  /\ result.kind = "Ok"
                  /\ d.name = e.name.plain
                  /\ d.folder = PlainOrAbsent(e.folder)
                  /\ d.notes = PlainOrAbsent(e.notes)
                  /\ d.data.kind = e.data.kind
                  /\ \A k \in DOMAIN e.data \ {"kind", "uris"} :
                        d.data[k] = PlainOrAbsent(e.data[k])
                  /\ e.data.kind = "Login" =>
                        IF \A i \in 1..Len(e.data.uris) : e.data.uris[i].uri.ok
                        THEN /\ d.data.uris # None
                             /\ Len(d.data.uris[1]) = Len(e.data.uris)
                             /\ \A i \in 1..Len(e.data.uris) :
                                   d.data.uris[1][i].uri
                                       = e.data.uris[i].uri.plain
                        ELSE d.data.uris = None
                  /\ Len(d.fields) = Len(e.fields)
                  /\ \A i \in 1..Len(e.fields) :
                        /\ d.fields[i].name = PlainOrAbsent(e.fields[i].name)
                        /\ d.fields[i].value = PlainOrAbsent(e.fields[i].value)
                  /\ Len(d.history) = Len(e.history)
                  /\ \A i \in 1..Len(e.history) :
                        d.history[i].password = e.history[i].password.plain

\* C13 witness: the projection succeeds although folder, notes, a data field
\* and a URI cannot be decrypted
C13_Witness ==
    /\ DecryptCalled
    /\ result.kind = "Ok"
    /\ db[1].folder = Some(Broken(<<"f">>))
    /\ db[1].notes = Some(Broken(<<"n">>))
    /\ db[1].data.kind = "Login"
    /\ db[1].data.username = Some(Broken(<<"u">>))
    /\ Len(db[1].data.uris) = 2
    /\ Len(db[1].fields) = 1
    /\ Len(db[1].history) = 1

(***************************************************************************)
(* Properties of get and code (checked under SpecGet)                      *)
(***************************************************************************)
GetCalled == call.op = "get"
CodeCalled == call.op = "code"
Resolved == result.kind = "Ok"
\* the entry the resolver returned
Entry == Unwrap(result.hit).decrypted

\* the command wrote what the projection shown writes, and nothing else
Rendered(shown) ==
    /\ stdout = Sink(shown.w, "stdout")
    /\ stderr = Sink(shown.w, "stderr")
    /\ clip = Sink(shown.w, "clip")

\* C14: get renders one projection of the resolved entry: JSON if raw is
\* set, else the long form if full is set, else the single-field form if a
\* field is named, else the short form, and then returns Ok; when the
\* resolver fails get writes nothing and returns the error.
C14_GetProjection ==
    GetCalled =>
        /\ result = find_entry(db, call.needle, call.username, call.folder,
                               call.ignore_case)
        /\ ~Resolved => /\ stdout = <<>> /\ stderr = <<>> /\ clip = <<>>
                        /\ IsSome(returned) /\ ~Unwrap(returned).ok
        /\ Resolved =>
              /\ returned = Some(Ok(<<>>))
              /\ call.raw =>
                    Rendered(display_json(Entry, Desc(call.needle,
                                                      call.username)))
              /\ (~call.raw /\ call.full) =>
                    Rendered(display_long(Entry, Desc(call.needle,
                                                      call.username),
                                          call.clipboard, call.store_ok))
              /\ (~call.raw /\ ~call.full /\ IsSome(call.field)) =>
                    Rendered(display_field(Entry, Desc(call.needle,
                                                       call.username),
                                           Unwrap(call.field), call.clipboard,
                                           call.store_ok, call.now))
              /\ (~call.raw /\ ~call.full /\ ~IsSome(call.field)) =>
                    Rendered(display_short(Entry, Desc(call.needle,
                                                       call.username),
                                           call.clipboard, call.store_ok))

\* get --raw --full --field on a Login with a password and notes printed
\* the JSON of the entry and nothing else
C14_Witness ==
    /\ GetCalled /\ Resolved
    /\ call.raw /\ call.full /\ IsSome(call.field)
    /\ Entry.data.kind = "Login"
    /\ IsSome(Entry.data.password) /\ IsSome(Entry.notes)
    /\ stdout = <<Json(Entry)>>
    /\ returned = Some(Ok(<<>>))

\* C15 as claimed: in the short, the long and the single-field projection
\* every value goes through val_display_or_store, so with the clipboard
\* asked for get writes nothing to stdout.
C15_Original ==
    (GetCalled /\ Resolved /\ ~call.raw /\ call.clipboard) => stdout = <<>>

(***************************************************************************)
(* Properties of parse_editor (checked under SpecEditor)                   *)
(***************************************************************************)
EditorCalled == IsSome(parsed)
Password == Unwrap(parsed).password
Notes == Unwrap(parsed).notes
BufferLines == lines(input)

\* where the notes start: the first line after the password that is not
\* empty, one past the last line when there is none
NotesStart ==
    IF \E i \in 2..Len(BufferLines) : BufferLines[i] # <<>>
    THEN CHOOSE i \in 2..Len(BufferLines) :
            /\ BufferLines[i] # <<>>
            /\ \A j \in 2..(i - 1) : BufferLines[j] = <<>>
    ELSE Len(BufferLines) + 1

\* the lines from there on that do not start with "#", joined by line ends
JoinedNotes ==
    join(SelectSeq(SubSeq(BufferLines, NotesStart, Len(BufferLines)),
                   IsNoComment),
         <<"\n">>)

\* s without the line ends at its end
Stripped(s) ==
    SubSeq(s, 1, CHOOSE n \in 0..Len(s) :
                    /\ n = 0 \/ s[n] # "\n"
                    /\ \A j \in (n + 1)..Len(s) : s[j] = "\n")

\* C16: parse_editor returns as password the first line of the buffer,
\* absent iff the buffer has no line, and as notes the lines after it,
\* without the leading empty lines and then without the lines that start
\* with "#", joined by line ends and stripped of the line ends at the end,
\* absent iff nothing is left; so no line of the notes starts with "#" and
\* the notes do not end with a line end.
C16_ParseEditor ==
    EditorCalled =>
        /\ Password = (IF BufferLines = <<>> THEN None
                       ELSE Some(BufferLines[1]))
        /\ (Password = None) <=> (input = <<>>)
        /\ Notes = (IF Stripped(JoinedNotes) = <<>> THEN None
                    ELSE Some(Stripped(JoinedNotes)))
        /\ \A notes \in Values(Notes) :
              /\ notes # <<>>
              /\ notes[Len(notes)] # "\n"
              /\ \A i \in 1..Len(lines(notes)) : IsNoComment(lines(notes)[i])

\* "x", an empty line, a comment and "x": the notes are the last line
C16_Witness ==
    /\ EditorCalled
    /\ Len(BufferLines) >= 4
    /\ \E i \in 2..Len(BufferLines) : BufferLines[i] = <<>>
    /\ \E i \in 2..Len(BufferLines) : ~IsNoComment(BufferLines[i])
    /\ Password = Some(<<"x">>)
    /\ Notes = Some(<<"x">>)

\* the first line of the buffer that is neither blank nor a comment, 0 when
\* there is none
FirstContentLine ==
    IF \E i \in 1..Len(BufferLines) :
          ~IsBlank(BufferLines[i]) /\ IsNoComment(BufferLines[i])
    THEN CHOOSE i \in 1..Len(BufferLines) :
            /\ ~IsBlank(BufferLines[i]) /\ IsNoComment(BufferLines[i])
            /\ \A j \in 1..(i - 1) :
                  IsBlank(BufferLines[j]) \/ ~IsNoComment(BufferLines[j])
    ELSE 0

\* the lines of the notes
NoteLines == IF IsSome(Notes) THEN lines(Unwrap(Notes)) ELSE <<>>

\* C17 as claimed: the password is the first line of the buffer that is
\* neither blank nor starts with "#", and the lines after it that do not
\* start with "#" are the notes.
C17_Original ==
    (EditorCalled /\ FirstContentLine > 0) =>
        /\ Password = Some(BufferLines[FirstContentLine])
        /\ \A i \in 1..Len(NoteLines) :
              \E j \in (FirstContentLine + 1)..Len(BufferLines) :
                  NoteLines[i] = BufferLines[j]

\* C17: the password is the first line of the buffer whatever it holds, a
\* blank line and a line that starts with "#" included; a later line that
\* is neither empty nor starts with "#" is not the password but a line of
\* the notes, and every line of the notes is a line after the first that
\* does not start with "#".
C17_PasswordIsFirstLine ==
    (EditorCalled /\ BufferLines # <<>>) =>
        /\ Password = Some(BufferLines[1])
        /\ \A j \in 2..Len(BufferLines) :
              (BufferLines[j] # <<>> /\ IsNoComment(BufferLines[j])) =>
                  \E i \in 1..Len(NoteLines) : NoteLines[i] = BufferLines[j]
        /\ \A i \in 1..Len(NoteLines) :
              /\ IsNoComment(NoteLines[i])
              /\ \E j \in 2..Len(BufferLines) : NoteLines[i] = BufferLines[j]

\* an empty first line, a comment and "x": the password is empty and "x" is
\* the notes
C17_Witness ==
    /\ EditorCalled
    /\ FirstContentLine = 3
    /\ BufferLines[1] = <<>>
    /\ ~IsNoComment(BufferLines[2])
    /\ Password = Some(<<>>)
    /\ Notes = Some(BufferLines[3])

\* the command was asked for the code of a Login that has a totp secret
TotpAsked ==
    /\ Resolved
    /\ Entry.data.kind = "Login"
    /\ IsSome(Entry.data.totp)
    /\ \/ CodeCalled
       \/ /\ GetCalled /\ ~call.raw /\ ~call.full
          /\ IsSome(call.field)
          /\ to_lowercase(Unwrap(call.field)) \in {<<"totp">>, <<"code">>}
\* what generate_totp makes of that secret
Generated == generate_totp(Unwrap(Entry.data.totp), call.now)

\* C18 as claimed: when generate_totp fails, code and get with the field
\* totp or code return an error and emit no code.
C18_Original ==
    (TotpAsked /\ ~Generated.ok) =>
        /\ IsSome(returned) /\ ~Unwrap(returned).ok
        /\ stdout = <<>> /\ clip = <<>>

\* C18: when generate_totp fails no code is emitted; code returns the
\* error of generate_totp, while get with the field totp or code prints
\* that error to stderr and returns Ok.
C18_TotpFailure ==
    (TotpAsked /\ ~Generated.ok) =>
        /\ stdout = <<>> /\ clip = <<>>
        /\ CodeCalled => returned = Some(Generated) /\ stderr = <<>>
        /\ GetCalled => returned = Some(Ok(<<>>)) /\ stderr = <<Generated.err>>

\* get --field totp on a Login whose otpauth URL names the algorithm sha1
\* printed the error and returned Ok
C18_Witness ==
    /\ GetCalled /\ TotpAsked
    /\ Generated = Err(<<"sha1", " is not a valid totp algorithm">>)
    /\ stderr = <<Generated.err>>
    /\ stdout = <<>> /\ clip = <<>>
    /\ returned = Some(Ok(<<>>))

(***************************************************************************)
(* Properties of parse_totp_secret and generate_totp (checked under        *)
(* SpecTotp)                                                               *)
(***************************************************************************)
TotpCalled == call.op = "generate_totp"
Params == Unwrap(parsed)
Generate == Unwrap(returned)

\* the secret is an otpauth://totp/ URL
IsOtpauthTotp == starts_with(input, <<"otpauth", ":", "//", "totp", "/">>)
\* the value of a parameter of the query, None when the query has none
ParamOf(key) ==
    IF \E i \in 1..(Len(input) - 2) : input[i] = key /\ input[i + 1] = "="
    THEN Some(<<input[(CHOOSE i \in 1..(Len(input) - 2) :
                          input[i] = key /\ input[i + 1] = "=") + 2]>>)
    ELSE None
\* a base32 string in upper or in lower case, and the bytes it encodes
IsBase32(s) ==
    \/ \A i \in 1..Len(s) : s[i] \in Base32Upper
    \/ \A i \in 1..Len(s) : s[i] \in Base32Lower
\* a decimal number
IsInteger(s) == s \in {<<"0">>, <<"6">>, <<"8">>, <<"30">>, <<"60">>}

\* C19: a bare base32 secret yields SHA1, 6 digits and a period of 30; an
\* otpauth://totp/ URL takes secret, algorithm, digits and period from its
\* query, with the same defaults for each missing one; a URL of another
\* scheme, of another host or without secret is rejected; generate_totp
\* rejects every algorithm that is not exactly SHA1, SHA256 or SHA512.
C19_TotpParams ==
    TotpCalled =>
        /\ (url_parse(input) = None /\ IsBase32(trim(input))) =>
              /\ Params.ok
              /\ Params.val = [secret |-> to_uppercase(trim(input)),
                               algorithm |-> <<"SHA1">>, digits |-> 6,
                               period |-> 30]
        /\ (IsOtpauthTotp /\ Params.ok) =>
              /\ IsSome(ParamOf("secret"))
              /\ Params.val.secret = to_uppercase(Unwrap(ParamOf("secret")))
              /\ Params.val.algorithm =
                    (IF IsSome(ParamOf("algorithm"))
                     THEN Unwrap(ParamOf("algorithm")) ELSE <<"SHA1">>)
              /\ Params.val.digits =
                    (IF IsSome(ParamOf("digits"))
                     THEN IntValue(Unwrap(ParamOf("digits"))[1]) ELSE 6)
              /\ Params.val.period =
                    (IF IsSome(ParamOf("period"))
                     THEN IntValue(Unwrap(ParamOf("period"))[1]) ELSE 30)
        /\ (/\ IsOtpauthTotp
            /\ \E secret \in Values(ParamOf("secret")) : IsBase32(secret)
            /\ \A digits \in Values(ParamOf("digits")) : IsInteger(digits)
            /\ \A period \in Values(ParamOf("period")) : IsInteger(period))
              => Params.ok
        /\ (/\ url_parse(input) # None
            /\ \/ ~IsOtpauthTotp
               \/ ParamOf("secret") = None) => ~Params.ok
        /\ Generate.ok =>
              /\ Params.ok
              /\ Params.val.algorithm
                    \in {<<"SHA1">>, <<"SHA256">>, <<"SHA512">>}
              /\ Generate.val[1].alg = Params.val.algorithm
              /\ Generate.val[1].digits = Params.val.digits
        /\ (/\ Params.ok
            /\ Params.val.algorithm
                  \notin {<<"SHA1">>, <<"SHA256">>, <<"SHA512">>})
              => ~Generate.ok
        /\ ~Params.ok => Generate = Params

\* an otpauth URL with a secret, 8 digits and the algorithm sha1: the
\* parameters are read, the period is 30, and generate_totp rejects it
C19_Witness ==
    /\ TotpCalled
    /\ IsOtpauthTotp
    /\ ParamOf("algorithm") = Some(<<"sha1">>)
    /\ ParamOf("period") = None
    /\ Params.ok
    /\ Params.val.algorithm = <<"sha1">>
    /\ Params.val.digits = 8
    /\ Params.val.period = 30
    /\ ~Generate.ok

\* C27 as claimed: the period of accepted parameters is at least 1; an
\* otpauth URL with period=0 is rejected by parse_totp_secret, so that the
\* division of the time by the period is always defined
C27_Original ==
    TotpCalled =>
        /\ Params.ok => Params.val.period >= 1
        /\ (IsOtpauthTotp /\ ParamOf("period") = Some(<<"0">>)) => ~Params.ok
        /\ ~IsPanic(Generate)

(***************************************************************************)
(* Properties of ensure_agent (checked under SpecAgent)                    *)
(***************************************************************************)
AgentDone == agent.pc = "done"
LastRead == agent.read[Len(agent.read)]

\* C20: ensure_agent validates the configuration before it launches
\* anything, launches the agent at most twice, the second time only after
\* it read a version that differs from the client's and quit the agent; when
\* the second version read differs too it quits the agent again and returns
\* an error; it returns Ok only when the last version read is the client's.
C20_AtMostOneRestart ==
    /\ agent.launches <= 2
    /\ Len(agent.read) <= agent.launches
    /\ agent.launches > 0 => agent.config_ok
    /\ (~agent.config_ok /\ AgentDone) =>
          agent.launches = 0 /\ ~Unwrap(returned).ok
    /\ (agent.launches = 2 \/ agent.round = 2) =>
          /\ Len(agent.read) >= 1
          /\ agent.read[1] # ClientVersion
          /\ agent.quits >= 1
    /\ (agent.pc = "launch" /\ agent.round = 2) =>
          agent.launches = 1 /\ agent.running = None
    /\ (AgentDone /\ Len(agent.read) = 2 /\ LastRead # ClientVersion) =>
          agent.quits = 2 /\ ~Unwrap(returned).ok
    /\ AgentDone <=> IsSome(returned)
    /\ returned = Some(Ok(<<>>)) =>
          agent.read # <<>> /\ LastRead = ClientVersion

\* an agent of another version ran and the installed one is of another
\* version too: two launches, two versions read, two quits, an error
C20_Witness ==
    /\ AgentDone
    /\ agent.launches = 2
    /\ Len(agent.read) = 2
    /\ LastRead # ClientVersion
    /\ agent.quits = 2
    /\ agent.running = None
    /\ ~Unwrap(returned).ok

(***************************************************************************)
(* Further properties of find_entry_raw (checked under Spec)               *)
(***************************************************************************)
\* the folder of the i-th entry holds the folder of the call
InCallFolder(i) ==
    /\ IsSome(Pairs[i].decrypted.folder)
    /\ contains(Unwrap(Pairs[i].decrypted.folder), Unwrap(call.folder))

\* C21: a call with a folder runs only the passes that compare the folder:
\* it returns NotFound when no entry has a folder that holds the given one,
\* and an entry it returns is the single hit of pass 1, with a folder equal
\* to the given one, or of pass 3, with a folder that contains it
C21_FolderQualifiedOnly ==
    (RawCalled /\ IsSome(call.folder)) =>
        /\ (\A i \in 1..Len(Pairs) : ~InCallFolder(i)) => result = NotFound
        /\ result.kind = "Ok" =>
              /\ InCallFolder(result.idx)
              /\ \/ /\ ReturnsHitOf(1)
                    /\ Pairs[result.idx].decrypted.folder = call.folder
                 \/ call.needle.kind = "Name" /\ ReturnsHitOf(3)

\* C21 witness: NotFound for a call with a folder although an entry outside
\* the folder matches the needle and the username exactly
C21_Witness ==
    /\ RawCalled /\ IsSome(call.folder)
    /\ result = NotFound
    /\ \E i \in PassMatches(2, call.folder, call.ignore_case) :
          ~InCallFolder(i)

\* the i-th entry is a Login whose username is the username of the call
HasCallUsername(i) ==
    /\ Pairs[i].decrypted.data.kind = "Login"
    /\ Pairs[i].decrypted.data.username = call.username

\* C22: with a username, the exact passes match only Logins whose username
\* is present and equal to the given one character for character, with and
\* without ignore_case, whatever the needle; so a Uri or Uuid needle, which
\* only the exact passes serve, returns only such an entry
C22_ExactUsername ==
    (RawCalled /\ IsSome(call.username)) =>
        /\ \A k \in {1, 2} : \A i \in Hits(k) : HasCallUsername(i)
        /\ (call.needle.kind # "Name" /\ result.kind = "Ok") =>
              HasCallUsername(result.idx)

\* C22 witness: under ignore_case an entry named as the needle asks, whose
\* username differs from the given one only in case, is no exact match and
\* is returned by a partial pass
C22_Witness ==
    /\ RawCalled /\ IsSome(call.username) /\ call.ignore_case
    /\ call.needle.kind = "Name"
    /\ \E i \in 1..Len(Pairs) :
          /\ ExactNeedle(Pairs[i].decrypted, call.needle, TRUE)
          /\ IsLoginWithUsername(Pairs[i].decrypted)
          /\ Pairs[i].decrypted.data.username # call.username
          /\ to_lowercase(Unwrap(Pairs[i].decrypted.data.username)) =
                to_lowercase(Unwrap(call.username))
          /\ i \notin Hits(2)
          /\ result.kind = "Ok" /\ result.idx = i

(***************************************************************************)
(* Properties of display_field (checked under SpecField)                   *)
(***************************************************************************)
\* the names that the match of display_field lists for a variant
Keywords(kind) ==
    CASE kind = "Login" ->
            {<<"notes">>, <<"username">>, <<"user">>, <<"totp">>, <<"code">>,
             <<"uris">>, <<"urls">>, <<"sites">>, <<"password">>}
      [] kind = "Card" ->
            {<<"number">>, <<"card">>, <<"exp">>, <<"exp_month">>,
             <<"month">>, <<"exp_year">>, <<"year">>, <<"cvv">>, <<"name">>,
             <<"cardholder">>, <<"brand">>, <<"type">>, <<"notes">>}
      [] kind = "Identity" ->
            {<<"name">>, <<"email">>, <<"address">>, <<"city">>, <<"state">>,
             <<"postcode">>, <<"zipcode">>, <<"zip">>, <<"country">>,
             <<"phone">>, <<"ssn">>, <<"license">>, <<"passport">>,
             <<"username">>, <<"notes">>}
      [] OTHER -> {<<"note">>, <<"notes">>}

FieldCalled == GetCalled /\ Resolved /\ IsSome(call.field)
\* the requested name, in lower case
Requested == to_lowercase(Unwrap(call.field))
IsKeyword == Requested \in Keywords(Entry.data.kind)
\* the value of the i-th custom field, "" when it has none
ValueOf(i) ==
    IF IsSome(Entry.fields[i].value) THEN Unwrap(Entry.fields[i].value)
    ELSE <<>>
\* the custom fields whose name in lower case contains the requested name
NamedAsRequested ==
    {i \in 1..Len(Entry.fields) :
        /\ IsSome(Entry.fields[i].name)
        /\ contains(to_lowercase(Unwrap(Entry.fields[i].name)), Requested)}
\* the values handed to stdout or to the clipboard
Emitted == stdout \o clip
\* value was emitted once: printed, or stored when the clipboard is asked
\* for and takes it
EmittedOnly(value) ==
    /\ ~call.clipboard => stdout = <<value>> /\ clip = <<>>
    /\ (call.clipboard /\ call.store_ok) => stdout = <<>> /\ clip = <<value>>
    /\ (call.clipboard /\ ~call.store_ok) => Emitted = <<>>

\* the built-in field that the keywords asked for in this model name: the
\* notes, and for a Login the username
BuiltIn ==
    IF Requested = <<"user">> THEN Entry.data.username ELSE Entry.notes

\* C23: the requested name is compared in lower case; a keyword of the
\* entry's variant shows the built-in field and never the value of a custom
\* field; any other name emits the value of the first custom field, in
\* stored order, whose name in lower case contains it ("" without a value),
\* and nothing when there is none; no call emits more than one value
C23_DisplayField ==
    FieldCalled =>
        /\ Len(Emitted) <= 1
        /\ IsKeyword =>
              /\ \A n \in 1..Len(Emitted) : \A i \in 1..Len(Entry.fields) :
                    Emitted[n] # ValueOf(i)
              /\ IF IsSome(BuiltIn) THEN EmittedOnly(Unwrap(BuiltIn))
                 ELSE Emitted = <<>>
        /\ (~IsKeyword /\ NamedAsRequested = {}) =>
              Emitted = <<>> /\ stderr = <<>>
        /\ (~IsKeyword /\ NamedAsRequested # {}) =>
              EmittedOnly(ValueOf(CHOOSE i \in NamedAsRequested :
                                     \A j \in NamedAsRequested : i <= j))

\* C23 witness: a name given in upper case matches two custom fields and
\* only the value of the first is printed
C23_Witness ==
    /\ FieldCalled /\ ~call.clipboard
    /\ Unwrap(call.field) # Requested
    /\ ~IsKeyword
    /\ Cardinality(NamedAsRequested) = 2
    /\ ValueOf(1) # ValueOf(2)
    /\ stdout = <<ValueOf(1)>>

(***************************************************************************)
(* Properties of add, generate, edit and remove (checked under SpecMutate) *)
(***************************************************************************)
MutateCalled == call.op \in {"add", "generate", "edit", "remove"}
RemoteMutations == {"actions::add", "actions::edit", "actions::remove"}
\* the positions in effects of the remote mutations that returned success
Mutated ==
    {i \in 1..Len(effects) :
        effects[i].call \in RemoteMutations /\ effects[i].ok}
\* the positions in effects of the requests for a sync
Synced == {i \in 1..Len(effects) : effects[i].call = "sync"}
Failed == IsSome(returned) /\ ~Unwrap(returned).ok

\* C24 as claimed: a remote mutation that returned success is followed by
\* a request for a sync before the command returns, a sync is requested
\* only after such a mutation, and a command in which unlock, load_db, the
\* editor, encrypt or the mutation fails returns an error without a sync
C24_Original ==
    MutateCalled =>
        /\ \A i \in Mutated : \E j \in Synced : i < j
        /\ \A j \in Synced : \E i \in Mutated : i < j
        /\ \A i \in 1..Len(effects) :
              (/\ ~effects[i].ok
               /\ effects[i].call \in
                     {"unlock", "load_db", "editor", "encrypt"}
                     \cup RemoteMutations) =>
                  Synced = {} /\ Failed

\* the part of C24 that holds: a sync is requested only after a remote
\* mutation that returned success, a command returns Ok only after its sync
\* returned success, and a call that fails is the last one made
C24_SyncOnlyAfterMutation ==
    MutateCalled =>
        /\ \A j \in Synced : \E i \in Mutated : i < j
        /\ (returned = Some(Ok(<<>>)) /\ effects # <<>>) =>
              \E j \in Synced : effects[j].ok
        /\ \A i \in 1..Len(effects) :
              ~effects[i].ok => i = Len(effects) /\ Failed

\* the entries matched by a pass that this needle and folder call for
AnyAttemptedHits ==
    UNION {Hits(k) : k \in {j \in 1..4 : Attempted(j, call.folder)}}

\* C25: the last pass that the needle and the folder call for matches every
\* entry that an earlier such pass matches; so NotFound is returned only
\* when none of these passes matches an entry, and the payload of Ambiguous
\* names every entry that one of them matches, in entry order
C25_LastPassWidest ==
    RawCalled =>
        /\ AnyAttemptedHits = Hits(LastAttempted)
        /\ result = NotFound => AnyAttemptedHits = {}
        /\ result.kind = "Ambiguous" =>
              result.payload =
                  join([n \in 1..Len(InEntryOrder(AnyAttemptedHits)) |->
                          DisplayNameOf(
                              Pairs[InEntryOrder(AnyAttemptedHits)[n]]
                                  .decrypted)],
                       <<", ">>)

\* C25 witness: two entries in folders match the name exactly; the passes
\* that want no folder match nothing, the last pass matches both and the
\* call is ambiguous between them
C25_Witness ==
    /\ RawCalled /\ call.needle.kind = "Name" /\ ~IsSome(call.folder)
    /\ Hits(1) = {} /\ Cardinality(Hits(2)) = 2 /\ Hits(3) = {}
    /\ Hits(4) = Hits(2)
    /\ result.kind = "Ambiguous"

(***************************************************************************)
(* Properties of the URIs of a projection (checked under SpecBrokenUris)   *)
(***************************************************************************)
UriCalled == call.op = "find_entry" /\ call.needle.kind = "Uri"
\* the URIs of the i-th entry that can be decrypted, in stored order
ReadableUris(i) ==
    LET readable(u) == u.uri.ok
        kept == SelectSeq(db[i].data.uris, readable)
    IN  [j \in 1..Len(kept) |->
            [uri |-> kept[j].uri.plain, match_type |-> kept[j].match_type]]
\* the entries with a readable URI that matches the needle
ReadableUriHits ==
    {i \in 1..Len(db) :
        \E j \in 1..Len(ReadableUris(i)) :
            matches_url(ReadableUris(i)[j], call.needle.url)}

\* C26 as claimed: a URI that cannot be decrypted is dropped alone: the
\* entry keeps its other URIs and is resolved by a Uri needle that matches
\* one of them
C26_Original ==
    (UriCalled /\ Cardinality(ReadableUriHits) = 1) =>
        /\ result.kind = "Ok"
        /\ result.idx \in ReadableUriHits
        /\ Unwrap(result.hit).decrypted.data.uris
              = Some(ReadableUris(result.idx))

(***************************************************************************)
(* Properties of ensure_agent_once (checked under SpecAgent)               *)
(***************************************************************************)
\* the n-th call of ensure_agent_once returned an error: ensure_agent
\* returned it at once
LaunchFailed(n) ==
    /\ n = Len(agent.exits)
    /\ returned = Some(Err(<<"failed to run rbw-agent", agent.exits[n]>>))

\* C28 as claimed: ensure_agent_once returns Ok exactly when the agent
\* command exits with success or with code 23; it returns an error for
\* every other end of the command, the end by a signal included
C28_Original ==
    \A n \in 1..Len(agent.exits) :
        LaunchFailed(n) <=> agent.exits[n] \notin {"exit 0", "exit 23"}

(***************************************************************************)
(* Properties of config_set and config_unset (checked under SpecConfig)    *)
(***************************************************************************)
ConfigCalled == call.op \in {"config_set", "config_unset"}
InvalidKey == returned = Some(Err(<<"invalid config key: ">> \o call.key))
\* the keys that config_set has an arm for
SetAccepts(key) ==
    \E value \in ConfigValues :
        config_set([fail |-> "none"], None, key, value).returned
            # Err(<<"invalid config key: ">> \o key)

\* C29: config_unset resets every key that config_set accepts and rejects
\* the others; for a key that config_set does not accept both commands
\* return 'invalid config key', save nothing and do not stop the agent.
C29_Original ==
    ConfigCalled =>
        /\ call.op = "config_unset" => (InvalidKey <=> ~SetAccepts(call.key))
        /\ ~SetAccepts(call.key) =>
              InvalidKey /\ effects = <<>> /\ config = call.file
\* the part that holds: a key that neither command has an arm for is
\* rejected before anything is saved or the agent is stopped
C29_InvalidKeyLeavesFile ==
    (ConfigCalled /\ InvalidKey) => effects = <<>> /\ config = call.file

(***************************************************************************)
(* Properties of edit with an editor that changes nothing (checked under   *)
(* SpecMutate)                                                             *)
(***************************************************************************)
\* edit found a Login, the user left the buffer as it was, and the entry was
\* submitted to the server
UnchangedLoginSubmitted(i) ==
    /\ call.op = "edit"
    /\ call.env.editor = "unchanged"
    /\ Len(db) = 1
    /\ db[1].data.kind = "Login"
    /\ i \in 1..Len(effects)
    /\ effects[i].call = "actions::edit"

\* C30: a Login edited with the buffer left unchanged is submitted with the
\* password and the notes it had: none where it had none, the same ones
\* where it had them.
C30_Original ==
    \A i \in 1..Len(effects) :
        UnchangedLoginSubmitted(i) =>
            /\ effects[i].arg[1].data.password = db[1].data.password
            /\ effects[i].arg[1].notes = db[1].notes
\* the part that holds: a password that the entry has comes back as it was
C30_PasswordKept ==
    \A i \in 1..Len(effects) :
        (UnchangedLoginSubmitted(i) /\ IsSome(db[1].data.password)) =>
            effects[i].arg[1].data.password = db[1].data.password

====
